---- MODULE Spec2Model ----
(***************************************************************************)
(* Resilient dispatch layer of discord-mcp: the error classifier           *)
(* (DiscordErrorHandler) and the retry orchestrator (RetryManager).        *)
(* One invocation of executeWithRetry is followed from the call to its     *)
(* terminal state; the wrapped operation, Math.random and the timer are    *)
(* the environment.                                                        *)
(*                                                                         *)
(* Specifications:                                                         *)
(*   Spec          one invocation of RetryManager.executeWithRetry         *)
(*   ClassifySpec  DiscordErrorHandler.handleError followed by             *)
(*                 RetryManager.calculateDelay, on one fault               *)
(*   ToolSpec      one CallTool request: the handler of DiscordMCPServer   *)
(*                 and DiscordMCPTool.executeWithErrorHandling             *)
(*   FileSpec      one run of the operation of DiscordClient.sendMessage:  *)
(*                 FileProcessor.processAttachments, then the send         *)
(*   SendSpec      one invocation of DiscordClient.sendMessage: the        *)
(*                 operation of FileSpec run by executeWithRetry           *)
(*   LiveSpec      Spec with the default delays, under fairness: every     *)
(*                 operation settles, every timer fires                    *)
(*   PairSpec      two concurrent invocations of executeWithRetry on one   *)
(*                 RetryManager                                            *)
(*   PathSpec      the remote platform calls that the execute of a tool    *)
(*                 makes, through the facade or on the client directly     *)
(***************************************************************************)
EXTENDS Integers, Sequences, FiniteSets, TLC

VARIABLES policy, pc, attempt, lastError, thrown, result, calls, inFlight,
          timer, log, outcomes, slept

\* the classifier applied to one fault
VARIABLES cFault, cError, cAttempt, cDelay

retryVars == <<policy, pc, attempt, lastError, thrown, result, calls, inFlight,
               timer, log, outcomes, slept>>

\* one CallTool request
VARIABLES tCall, tPc, tOutcome, tResponse, tStep, tRemote, ready

\* one run of the operation of sendMessage with its attachment batch
VARIABLES fFiles, fTasks, fPc, fFirst, fBatch, fSent, fRuns

\* a second invocation of executeWithRetry on the same RetryManager: its
\* locals and its history
VARIABLES peer

classifyVars == <<cFault, cError, cAttempt, cDelay>>

fileVars == <<fFiles, fTasks, fPc, fFirst, fBatch, fSent, fRuns>>

toolVars == <<tCall, tPc, tOutcome, tResponse, tStep, tRemote, ready>>

vars == <<retryVars, classifyVars, toolVars, fileVars, peer>>

(***************************************************************************)
(* Bounds of the model.                                                    *)
(***************************************************************************)
MaxAttemptsBound == 4

\* an absent optional number (retryAfter?, code?, retry_after)
Undefined == 0 - 1

(***************************************************************************)
(* DiscordErrorType                                                        *)
(***************************************************************************)
RATE_LIMITED == "rate_limited"
PERMISSION_DENIED == "permission_denied"
NOT_FOUND == "not_found"
NETWORK_ERROR == "network_error"
AUTHENTICATION_ERROR == "authentication_error"
INVALID_PARAMETERS == "invalid_parameters"
UNKNOWN == "unknown"

DiscordErrorType ==
  {RATE_LIMITED, PERMISSION_DENIED, NOT_FOUND, NETWORK_ERROR,
   AUTHENTICATION_ERROR, INVALID_PARAMETERS, UNKNOWN}

(***************************************************************************)
(* Faults the wrapped operation can throw.  cls is the class of the thrown *)
(* value; code is DiscordAPIError.code (the error code of the response     *)
(* body), status the HTTP status, retry_after the wait hint of a 429 body  *)
(* in hundredths of a second (the hint is a fractional number of seconds), *)
(* message the words of Error.message.                                     *)
(***************************************************************************)
Fault(cls, code, status, retry_after, message) ==
  [cls |-> cls, code |-> code, status |-> status,
   retry_after |-> retry_after, message |-> message]

\* platform error codes of a response body (50013: Missing Permissions)
PlatformCodes == {50013}

ApiStatuses == {400, 401, 403, 404, 429, 503}

\* wait hints of a 429 body, in hundredths of a second: none, 0.05 s, 2 s
RetryAfterHints == {Undefined, 5, 200}

\* code is the status itself or a platform code; only a 429 body has a hint
ApiFaults ==
  { Fault("DiscordAPIError", t[1], t[2], t[3], <<"api">>) :
      t \in { u \in (ApiStatuses \cup PlatformCodes) \X ApiStatuses \X RetryAfterHints :
                /\ u[1] \in PlatformCodes \/ u[1] = u[2]
                /\ u[3] # Undefined => u[2] = 429
                /\ (u[1] \in PlatformCodes /\ u[2] = 429) => u[3] = 200 } }

HttpFaults ==
  { Fault("HTTPError", Undefined, s, Undefined, <<"http">>) :
      s \in {400, 401, 403, 404, 429, 503} }

GenericFaults ==
  { Fault("Error", Undefined, Undefined, Undefined, m) :
      m \in { <<"read", "ECONNRESET">>, <<"Client", "is", "not", "ready">> } }

\* a thrown value that is not an Error object
OtherFaults == { Fault("other", Undefined, Undefined, Undefined, <<>>) }

Faults == ApiFaults \cup HttpFaults \cup GenericFaults \cup OtherFaults

NoFault == Fault("none", Undefined, Undefined, Undefined, <<>>)

\* the outcome of an attempt that resolved to v
Resolved(v) == Fault("resolved", Undefined, Undefined, Undefined, <<v>>)

(***************************************************************************)
(* DiscordError                                                            *)
(***************************************************************************)
DiscordError(type, message, originalError, isRetryable, retryAfter, code) ==
  [type |-> type, message |-> message, originalError |-> originalError,
   isRetryable |-> isRetryable, retryAfter |-> retryAfter, code |-> code]

\* the value of `lastError` before any failure
Null == DiscordError("null", <<>>, NoFault, FALSE, Undefined, Undefined)

(***************************************************************************)
(* DiscordErrorHandler                                                     *)
(***************************************************************************)
\* JavaScript truthiness of an optional number
Truthy(n) == n # Undefined /\ n # 0

\* the hint taken for milliseconds
extractRetryAfterNoScale(error) ==
  IF Truthy(error.retry_after)
    THEN error.retry_after \div 100
    ELSE 1000

extractRetryAfter(error) ==
  IF Truthy(error.retry_after)
    THEN (error.retry_after * 1000) \div 100
    ELSE 1000

\* the platform code recorded as the code of the classified error
handleDiscordAPIErrorCodeRecorded(error) ==
  LET code == error.code
      status == error.status
  IN CASE code = 401 ->
            DiscordError(AUTHENTICATION_ERROR, <<"Invalid bot token">>, error,
                         FALSE, Undefined, code)
       [] code = 403 ->
            DiscordError(PERMISSION_DENIED, <<"Missing permissions:">> \o error.message,
                         error, FALSE, Undefined, code)
       [] code = 404 ->
            DiscordError(NOT_FOUND, <<"Resource not found:">> \o error.message,
                         error, FALSE, Undefined, code)
       [] code = 429 ->
            DiscordError(RATE_LIMITED,
                         <<"Rate limited. Retry after", ToString(extractRetryAfter(error)), "ms">>,
                         error, TRUE, extractRetryAfter(error), code)
       [] code = 400 ->
            DiscordError(INVALID_PARAMETERS,
                         <<"Invalid request parameters:">> \o error.message,
                         error, FALSE, Undefined, code)
       [] code \in {500, 502, 503, 504} ->
            DiscordError(NETWORK_ERROR, <<"Discord server error">> \o error.message,
                         error, TRUE, Undefined, code)
       [] OTHER ->
            DiscordError(UNKNOWN, <<"Discord API error">> \o error.message,
                         error, status >= 500, Undefined, code)

handleDiscordAPIError(error) ==
  LET code == error.code
      status == error.status
  IN CASE code = 401 ->
            DiscordError(AUTHENTICATION_ERROR, <<"Invalid bot token">>, error,
                         FALSE, Undefined, status)
       [] code = 403 ->
            DiscordError(PERMISSION_DENIED, <<"Missing permissions:">> \o error.message,
                         error, FALSE, Undefined, status)
       [] code = 404 ->
            DiscordError(NOT_FOUND, <<"Resource not found:">> \o error.message,
                         error, FALSE, Undefined, status)
       [] code = 429 ->
            DiscordError(RATE_LIMITED,
                         <<"Rate limited. Retry after", ToString(extractRetryAfter(error)), "ms">>,
                         error, TRUE, extractRetryAfter(error), status)
       [] code = 400 ->
            DiscordError(INVALID_PARAMETERS,
                         <<"Invalid request parameters:">> \o error.message,
                         error, FALSE, Undefined, status)
       [] code \in {500, 502, 503, 504} ->
            DiscordError(NETWORK_ERROR, <<"Discord server error">> \o error.message,
                         error, TRUE, Undefined, status)
       [] OTHER ->
            DiscordError(UNKNOWN, <<"Discord API error">> \o error.message,
                         error, status >= 500, Undefined, status)

\* every HTTP error status taken for a server error
handleHTTPErrorAnyStatus(error) ==
  IF error.status >= 400
    THEN DiscordError(NETWORK_ERROR, <<"HTTP error">> \o error.message, error,
                      TRUE, Undefined, error.status)
    ELSE DiscordError(UNKNOWN, <<"HTTP error">> \o error.message, error,
                      FALSE, Undefined, error.status)

handleHTTPError(error) ==
  IF error.status >= 500
    THEN DiscordError(NETWORK_ERROR, <<"HTTP error">> \o error.message, error,
                      TRUE, Undefined, error.status)
    ELSE DiscordError(UNKNOWN, <<"HTTP error">> \o error.message, error,
                      FALSE, Undefined, error.status)

networkErrors == {"ECONNRESET", "ENOTFOUND", "ETIMEDOUT", "ECONNREFUSED"}

\* a generic error that is not a network error kept retryable
handleGenericErrorRetryUnknown(error) ==
  LET isNetworkError ==
        \E i \in 1..Len(error.message) : error.message[i] \in networkErrors
  IN IF isNetworkError
       THEN DiscordError(NETWORK_ERROR, <<"Network error:">> \o error.message,
                         error, TRUE, Undefined, Undefined)
       ELSE DiscordError(UNKNOWN, error.message, error, TRUE, Undefined, Undefined)

handleGenericError(error) ==
  LET isNetworkError ==
        \E i \in 1..Len(error.message) : error.message[i] \in networkErrors
  IN IF isNetworkError
       THEN DiscordError(NETWORK_ERROR, <<"Network error:">> \o error.message,
                         error, TRUE, Undefined, Undefined)
       ELSE DiscordError(UNKNOWN, error.message, error, FALSE, Undefined, Undefined)

\* a value that is not an Error object wrapped as it is
handleErrorRawCause(error) ==
  CASE error.cls = "DiscordAPIError" -> handleDiscordAPIError(error)
    [] error.cls = "HTTPError" -> handleHTTPError(error)
    [] error.cls = "Error" -> handleGenericError(error)
    [] OTHER -> DiscordError(UNKNOWN, <<"An unknown error occurred">>, error,
                             FALSE, Undefined, Undefined)

handleError(error) ==
  CASE error.cls = "DiscordAPIError" -> handleDiscordAPIError(error)
    [] error.cls = "HTTPError" -> handleHTTPError(error)
    [] error.cls = "Error" -> handleGenericError(error)
    [] OTHER -> DiscordError(UNKNOWN, <<"An unknown error occurred">>,
                             Fault("Error", Undefined, Undefined, Undefined, <<"String(error)">>),
                             FALSE, Undefined, Undefined)

(***************************************************************************)
(* RetryConfig: the policies a RetryManager is constructed with.           *)
(* loadConfig builds {maxAttempts: MAX_RETRIES, baseDelay: 1000,           *)
(* maxDelay: 30000, jitter: true, retryableErrors: [RATE_LIMITED,          *)
(* NETWORK_ERROR, UNKNOWN]}; the constructor accepts any RetryConfig.      *)
(***************************************************************************)
DefaultRetryableErrors == {RATE_LIMITED, NETWORK_ERROR, UNKNOWN}

\* <<baseDelay, maxDelay, jitter, retryableErrors>>: the configuration of
\* loadConfig, the same without jitter, a low cap, a base below the 100 ms
\* minimum, and a policy that allows rate limits only
PolicyShapes ==
  { <<1000, 30000, TRUE, DefaultRetryableErrors>>,
    <<1000, 30000, FALSE, DefaultRetryableErrors>>,
    <<1000, 1500, FALSE, DefaultRetryableErrors>>,
    <<60, 30000, FALSE, DefaultRetryableErrors>>,
    <<1000, 30000, FALSE, {RATE_LIMITED}>> }

RetryConfig ==
  { [maxAttempts |-> n, baseDelay |-> p[1], maxDelay |-> p[2], jitter |-> p[3],
     retryableErrors |-> p[4]] :
      n \in 0..MaxAttemptsBound, p \in PolicyShapes }

\* values of Math.random(), in thousandths: [0, 1)
RandomSamples == {0, 999}

\* values the wrapped operation resolves to
Values == {"v1", "v2"}

(***************************************************************************)
(* RetryManager                                                            *)
(***************************************************************************)
RECURSIVE Pow2(_)
Pow2(n) == IF n = 0 THEN 1 ELSE 2 * Pow2(n - 1)

Min(a, b) == IF a < b THEN a ELSE b
Max(a, b) == IF a > b THEN a ELSE b

\* delay += (Math.random() - 0.5) * 2 * jitterAmount, jitterAmount = delay * 0.1
addJitter(delay, random) == delay + ((random - 500) * 2 * delay) \div 10000

\* the 100 ms minimum applied to the explicit retry-after as well
calculateDelayFloored(error, n, random) ==
  LET delay == Min(policy.baseDelay * Pow2(n), policy.maxDelay)
      jittered == IF policy.jitter THEN addJitter(delay, random) ELSE delay
  IN Max(IF Truthy(error.retryAfter) THEN error.retryAfter ELSE jittered, 100)

\* a backoff that grows linearly with the attempt
calculateDelayLinear(error, n, random) ==
  IF Truthy(error.retryAfter)
    THEN error.retryAfter
    ELSE LET delay == Min(policy.baseDelay * (n + 1), policy.maxDelay)
             jittered == IF policy.jitter THEN addJitter(delay, random) ELSE delay
         IN Max(jittered, 100)

\* a backoff without the cap of maxDelay
calculateDelayUncapped(error, n, random) ==
  IF Truthy(error.retryAfter)
    THEN error.retryAfter
    ELSE LET delay == policy.baseDelay * Pow2(n)
             jittered == IF policy.jitter THEN addJitter(delay, random) ELSE delay
         IN Max(jittered, 100)

calculateDelay(error, n, random) ==
  IF Truthy(error.retryAfter)
    THEN error.retryAfter
    ELSE LET delay == Min(policy.baseDelay * Pow2(n), policy.maxDelay)
             jittered == IF policy.jitter THEN addJitter(delay, random) ELSE delay
         IN Max(jittered, 100)

isRetryableError(error) ==
  error.isRetryable /\ error.type \in policy.retryableErrors

\* a loop condition that admits one attempt more
loopConditionInclusive(n) == n <= policy.maxAttempts

\* for (...; attempt < this.config.maxAttempts; ...)
loopCondition(n) == n < policy.maxAttempts

\* a last-attempt test that is one attempt early
isLastAttemptEarly(n) == n + 1 = policy.maxAttempts - 1

\* if (attempt === this.config.maxAttempts - 1)
isLastAttempt(n) == n = policy.maxAttempts - 1

\* the retryability test left out
giveUpNever(discordError) == FALSE

\* if (!discordError.isRetryable) throw discordError
giveUp(discordError) == ~discordError.isRetryable

\* the sleep not awaited
sleepNotAwaited == TRUE

\* await this.sleep(delay): the continuation runs once the timer has fired
sleepResolved == timer.state = "fired"

LogEntry(level, message, n, totalAttempts, errorType, nextAttemptIn) ==
  [level |-> level, message |-> message, attempt |-> n,
   totalAttempts |-> totalAttempts, errorType |-> errorType,
   nextAttemptIn |-> nextAttemptIn]

\* logger.info(`Operation succeeded after retry`, ...) if (attempt > 0)
logSuccess(l, n) ==
  IF n > 0
    THEN Append(l, LogEntry("info", "Operation succeeded after retry", n + 1,
                            policy.maxAttempts, "undefined", Undefined))
    ELSE l

\* the failure report with the 0-based attempt index
logFailureZeroBased(l, n, discordError) ==
  Append(l, LogEntry("warn", "Operation failed", n, policy.maxAttempts,
                     discordError.type, Undefined))

\* logger.warn(`Operation failed`, ...)
logFailure(l, n, discordError) ==
  Append(l, LogEntry("warn", "Operation failed", n + 1, policy.maxAttempts,
                     discordError.type, Undefined))

\* logger.error(`Operation failed with non-retryable error`, ...)
logNonRetryable(l, discordError) ==
  Append(l, LogEntry("error", "Operation failed with non-retryable error",
                     Undefined, Undefined, discordError.type, Undefined))

\* logger.error(`Operation failed after all retry attempts`, ...)
logExhausted(l, discordError) ==
  Append(l, LogEntry("error", "Operation failed after all retry attempts",
                     Undefined, policy.maxAttempts, discordError.type, Undefined))

\* the retry report guarded like the success report
logRetryAfterFirst(l, n, discordError, delay) ==
  IF n > 0
    THEN Append(l, LogEntry("info", "Retrying operation after delay", n + 1,
                            Undefined, discordError.type, delay))
    ELSE l

\* logger.info(`Retrying operation after delay`, ...)
logRetry(l, n, discordError, delay) ==
  Append(l, LogEntry("info", "Retrying operation after delay", n + 1, Undefined,
                     discordError.type, delay))

\* sleep(ms): new Promise(resolve => setTimeout(resolve, ms))
sleep(ms) == [state |-> "pending", ms |-> ms]

NoTimer == [state |-> "none", ms |-> Undefined]

\* no invocation of executeWithRetry has started
\* the locals of an invocation of executeWithRetry that has not started
NoPeer ==
  [pc |-> "idle", attempt |-> 0, lastError |-> Null, thrown |-> Null,
   result |-> "undefined", calls |-> 0, timer |-> NoTimer, outcomes |-> <<>>,
   slept |-> <<>>]

\* executeWithRetry has not been called, and no other invocation runs
RetryStart ==
  /\ peer = NoPeer
  /\ pc = "idle"
  /\ attempt = 0
  /\ lastError = Null
  /\ thrown = Null
  /\ result = "undefined"
  /\ calls = 0
  /\ inFlight = 0
  /\ timer = NoTimer
  /\ log = <<>>
  /\ outcomes = <<>>
  /\ slept = <<>>

\* no fault is being classified
ClassifyIdle ==
  /\ cFault = NoFault
  /\ cError = Null
  /\ cAttempt = 0
  /\ cDelay = Undefined

\* the details of an MCPError; present is false for `null`
Details(present, discordError, retryable, suggestedAction) ==
  [present |-> present, discordError |-> discordError, retryable |-> retryable,
   suggestedAction |-> suggestedAction]

NoDetails == Details(FALSE, Null, FALSE, "")

\* what the host receives for a request: the result the handler returns
\* (channel "result") or the error it throws (channel "thrown")
Surfaced(channel, isError, message, details) ==
  [channel |-> channel, isError |-> isError, message |-> message,
   details |-> details]

NoCall == [tool |-> "", shape |-> "none", fault |-> NoFault]

NoOutcome == [threw |-> FALSE, code |-> "", message |-> <<>>, details |-> NoDetails]

\* no CallTool request has been received
ToolIdle ==
  /\ tCall = NoCall
  /\ tPc = "idle"
  /\ tOutcome = NoOutcome
  /\ tResponse = Surfaced("none", FALSE, <<>>, NoDetails)
  /\ tStep = 1
  /\ tRemote = <<>>
  /\ ready = TRUE

\* sendMessage has not been called
FileIdle ==
  /\ fFiles = <<>>
  /\ fTasks = <<>>
  /\ fPc = "idle"
  /\ fFirst = 0
  /\ fBatch = <<>>
  /\ fSent = <<>>
  /\ fRuns = 0

Init ==
  /\ policy \in RetryConfig
  /\ RetryStart
  /\ ClassifyIdle
  /\ ToolIdle
  /\ FileIdle

\* executeWithRetry is called: lastError = null, the loop is entered
Call ==
  /\ pc = "idle"
  /\ IF loopCondition(0)
       THEN /\ pc' = "attempting"
            /\ calls' = calls + 1
            /\ inFlight' = inFlight + 1
            /\ UNCHANGED thrown
       ELSE /\ pc' = "failed"
            /\ thrown' = lastError
            /\ UNCHANGED <<calls, inFlight>>
  /\ UNCHANGED <<policy, attempt, lastError, result, timer, log, outcomes, slept>>
  /\ UNCHANGED <<classifyVars, toolVars, fileVars, peer>>

\* the awaited operation resolves
OperationResolves(v) ==
  /\ pc = "attempting"
  /\ inFlight > 0
  /\ inFlight' = inFlight - 1
  /\ log' = logSuccess(log, attempt)
  /\ result' = v
  /\ pc' = "success"
  /\ outcomes' = Append(outcomes, Resolved(v))
  /\ UNCHANGED <<policy, attempt, lastError, thrown, calls, timer, slept>>
  /\ UNCHANGED <<classifyVars, toolVars, fileVars, peer>>

\* the awaited operation rejects: the catch block
OperationRejects(error, random) ==
  /\ pc = "attempting"
  /\ inFlight > 0
  /\ inFlight' = inFlight - 1
  /\ outcomes' = Append(outcomes, error)
  /\ LET discordError == handleError(error)
         warned == logFailure(log, attempt, discordError)
     IN /\ lastError' = discordError
        /\ IF giveUp(discordError)
             THEN /\ log' = logNonRetryable(warned, discordError)
                  /\ thrown' = discordError
                  /\ pc' = "failed"
                  /\ UNCHANGED <<timer, slept>>
             ELSE IF isLastAttempt(attempt)
               THEN /\ log' = logExhausted(warned, discordError)
                    \* break; throw lastError
                    /\ thrown' = discordError
                    /\ pc' = "failed"
                    /\ UNCHANGED <<timer, slept>>
               ELSE LET delay == calculateDelay(discordError, attempt, random)
                    IN /\ log' = logRetry(warned, attempt, discordError, delay)
                       /\ timer' = sleep(delay)
                       /\ slept' = Append(slept, delay)
                       /\ pc' = "sleeping"
                       /\ UNCHANGED thrown
  /\ UNCHANGED <<policy, attempt, result, calls>>
  /\ UNCHANGED <<classifyVars, toolVars, fileVars, peer>>

\* setTimeout(resolve, ms) fires
TimerFires ==
  /\ timer.state = "pending"
  /\ timer' = [timer EXCEPT !.state = "fired"]
  /\ UNCHANGED <<policy, pc, attempt, lastError, thrown, result, calls, inFlight,
                 log, outcomes, slept>>
  /\ UNCHANGED <<classifyVars, toolVars, fileVars, peer>>

\* the sleep is over: attempt++, the loop condition, the next operation()
NextAttempt ==
  /\ pc = "sleeping"
  /\ sleepResolved
  /\ attempt' = attempt + 1
  /\ timer' = NoTimer
  /\ IF loopCondition(attempt + 1)
       THEN /\ pc' = "attempting"
            /\ calls' = calls + 1
            /\ inFlight' = inFlight + 1
            /\ UNCHANGED thrown
       ELSE /\ pc' = "failed"
            /\ thrown' = lastError
            /\ UNCHANGED <<calls, inFlight>>
  /\ UNCHANGED <<policy, lastError, result, log, outcomes, slept>>
  /\ UNCHANGED <<classifyVars, toolVars, fileVars, peer>>

Next ==
  \/ Call
  \/ \E v \in Values : OperationResolves(v)
  \/ \E error \in Faults, random \in RandomSamples : OperationRejects(error, random)
  \/ TimerFires
  \/ NextAttempt

Spec == Init /\ [][Next]_vars

TypeOK ==
  /\ policy \in RetryConfig
  /\ pc \in {"idle", "attempting", "sleeping", "success", "failed"}
  /\ attempt \in 0..MaxAttemptsBound
  /\ calls \in 0..(MaxAttemptsBound + 1)
  /\ inFlight \in 0..1

(***************************************************************************)
(* Properties of executeWithRetry                                          *)
(***************************************************************************)
IsFailure(o) == o.cls \notin {"none", "resolved"}

Failures == { i \in 1..Len(outcomes) : IsFailure(outcomes[i]) }

RetryReports ==
  { i \in 1..Len(log) : log[i].message = "Retrying operation after delay" }

AllRetryable ==
  \A i \in 1..Len(outcomes) :
    IsFailure(outcomes[i]) /\ handleError(outcomes[i]).isRetryable

\* C1: with maxAttempts = N >= 1 and an operation whose every failure is
\* classified retryable, the operation is invoked at most N times, the call
\* fails only after exactly N invocations, and it fails with the
\* classification of the N-th failure.
C1_ExactlyMaxAttempts ==
  (policy.maxAttempts >= 1 /\ AllRetryable) =>
    /\ calls <= policy.maxAttempts
    /\ pc # "success"
    /\ pc = "failed" =>
         /\ calls = policy.maxAttempts
         /\ Len(outcomes) = policy.maxAttempts
         /\ thrown = handleError(outcomes[policy.maxAttempts])

C1_Witness ==
  /\ pc = "failed"
  /\ policy.maxAttempts = 3
  /\ calls = 3
  /\ Len(slept) = 2
  /\ AllRetryable
  /\ thrown.type = NETWORK_ERROR

\* C2: when the first failure is classified non-retryable the operation has
\* been invoked exactly once, no timer was ever set, no retry is reported and
\* the call has failed with that classified error, whatever maxAttempts is.
C2_NonRetryableStops ==
  (Len(outcomes) >= 1 /\ IsFailure(outcomes[1])
     /\ ~handleError(outcomes[1]).isRetryable) =>
    /\ pc = "failed"
    /\ calls = 1
    /\ Len(outcomes) = 1
    /\ timer = NoTimer
    /\ RetryReports = {}
    /\ thrown = handleError(outcomes[1])

C2_Witness ==
  /\ pc = "failed"
  /\ policy.maxAttempts = MaxAttemptsBound
  /\ calls = 1
  /\ thrown.type = PERMISSION_DENIED
  /\ ~thrown.isRetryable

\* C3: when the operation fails k times with a retryable NetworkError and
\* then resolves, executeWithRetry returns the value the operation resolved
\* to and the log holds exactly k retry reports.
C3_SuccessAfterRetries ==
  (/\ pc = "success"
   /\ \A i \in Failures : /\ handleError(outcomes[i]).type = NETWORK_ERROR
                          /\ handleError(outcomes[i]).isRetryable) =>
    /\ Len(outcomes) = Cardinality(Failures) + 1
    /\ result = outcomes[Len(outcomes)].message[1]
    /\ Cardinality(RetryReports) = Cardinality(Failures)
    /\ calls = Cardinality(Failures) + 1

C3_Witness ==
  /\ pc = "success"
  /\ Cardinality(Failures) = 2
  /\ \A i \in Failures : handleError(outcomes[i]).type = NETWORK_ERROR
  /\ result = "v2"
  /\ Cardinality(RetryReports) = 2

\* C4: after a failed attempt another attempt is started only when the
\* classified error is retryable AND its kind is in policy.retryableErrors
\* AND the attempt was not the last allowed one; in every other case the call
\* has failed with the classified error.
C4_RetryOnlyIfKindAllowed ==
  (Len(outcomes) >= 1 /\ Len(outcomes) = calls /\ IsFailure(outcomes[calls])) =>
    LET e == handleError(outcomes[calls])
        mayRetry == /\ e.isRetryable
                    /\ e.type \in policy.retryableErrors
                    /\ calls - 1 # policy.maxAttempts - 1
    IN /\ pc = "sleeping" => mayRetry
       /\ ~mayRetry => (pc = "failed" /\ thrown = e)

C6_ExplicitRetryAfter ==
  /\ \A i \in 1..Len(slept) :
       handleError(outcomes[i]).retryAfter # Undefined =>
         slept[i] = handleError(outcomes[i]).retryAfter
  /\ (pc = "sleeping" /\ lastError.retryAfter # Undefined) =>
       timer.ms = lastError.retryAfter

C6_Witness ==
  /\ pc = "sleeping"
  /\ policy.jitter
  /\ lastError.type = RATE_LIMITED
  /\ slept = <<900, 50>>

\* C7: attempts of one invocation are strictly sequential: at most one
\* attempt is in flight, and an attempt after the first starts only when the
\* previous attempt has finished, its failure has been classified and the
\* timer set for its delay has fired.
C7_Sequential ==
  /\ [](inFlight <= 1)
  /\ [][calls' # calls =>
          /\ calls' = calls + 1
          /\ inFlight = 0
          /\ Len(outcomes) = calls
          /\ calls > 0 =>
               /\ pc = "sleeping"
               /\ IsFailure(outcomes[calls])
               /\ lastError = handleError(outcomes[calls])
               /\ timer = [state |-> "fired", ms |-> slept[calls]]]_vars

C7_Witness ==
  /\ pc = "attempting"
  /\ calls = 2
  /\ inFlight = 1
  /\ Len(outcomes) = 1
  /\ Len(slept) = 1

HasReport(message, n, totalAttempts, errorType, delay) ==
  \E j \in 1..Len(log) :
    log[j] = LogEntry(IF message = "Operation failed" THEN "warn" ELSE "info",
                      message, n, totalAttempts, errorType, delay)

\* C8 (as amended): every failed attempt emits a report with the attempt
\* number, the total allowed attempts and the classification kind, and, when
\* a delay is computed, a report with the attempt number, the kind and the
\* delay; every successful attempt other than the first emits a report with
\* the attempt number and the total allowed attempts; a success on the first
\* attempt emits no report.
C8_AttemptsReported ==
  \A i \in 1..Len(outcomes) :
    IF IsFailure(outcomes[i])
      THEN /\ HasReport("Operation failed", i, policy.maxAttempts,
                        handleError(outcomes[i]).type, Undefined)
           /\ i <= Len(slept) =>
                HasReport("Retrying operation after delay", i, Undefined,
                          handleError(outcomes[i]).type, slept[i])
      ELSE IF i > 1
        THEN HasReport("Operation succeeded after retry", i, policy.maxAttempts,
                       "undefined", Undefined)
        ELSE log = <<>>

C8_Witness ==
  /\ pc = "success"
  /\ Len(outcomes) = 3
  /\ Len(log) = 5
  /\ log[5].attempt = 3

\* C8 (as stated): every attempt, successful or failed, has a report with its
\* attempt number and the total allowed attempts.
C8_EveryAttemptReported ==
  \A i \in 1..Len(outcomes) :
    \E j \in 1..Len(log) :
      /\ log[j].attempt = i
      /\ log[j].totalAttempts = policy.maxAttempts
      /\ IsFailure(outcomes[i]) => log[j].errorType = handleError(outcomes[i]).type

\* C9: a DiscordAPIError with status 429 and an explicit wait hint of h
\* seconds is classified RATE_LIMITED, retryable, with retryAfter = h * 1000.
C9_RateLimitHint ==
  (/\ Len(outcomes) >= 1
   /\ Len(outcomes) = calls
   /\ outcomes[calls].cls = "DiscordAPIError"
   /\ outcomes[calls].status = 429
   /\ outcomes[calls].retry_after # Undefined) =>
    /\ lastError.type = RATE_LIMITED
    /\ lastError.isRetryable
    /\ lastError.retryAfter * 100 = outcomes[calls].retry_after * 1000

\* C10: a DiscordAPIError or HTTPError whose status is 400, 401, 403 or 404
\* is classified non-retryable: the attempt that raised it is the last one of
\* the call, and the only one when it is the first failure.
C10_ClientErrorsNotRetried ==
  \A i \in Failures :
    (/\ outcomes[i].cls \in {"DiscordAPIError", "HTTPError"}
     /\ outcomes[i].status \in {400, 401, 403, 404}) =>
      /\ ~handleError(outcomes[i]).isRetryable
      /\ i = Len(outcomes)
      /\ calls = i
      /\ pc = "failed"
      /\ thrown = lastError
      /\ ~lastError.isRetryable
      /\ Len(slept) = i - 1

C10_Witness ==
  /\ pc = "failed"
  /\ policy.maxAttempts = MaxAttemptsBound
  /\ calls = 1
  /\ outcomes[1].cls = "HTTPError"
  /\ outcomes[1].status = 404
  /\ slept = <<>>

\* C33: for every maxAttempts that loadConfig produces, MAX_RETRIES = 0
\* included, a failed executeWithRetry has invoked the operation at least
\* once and has thrown a classified error, never null.
C33_FailsClassified ==
  pc = "failed" =>
    /\ calls >= 1
    /\ thrown # Null
    /\ thrown.type \in DiscordErrorType

(***************************************************************************)
(* ClassifySpec: DiscordErrorHandler.handleError applied to one fault,     *)
(* then RetryManager.calculateDelay applied to the classified error.       *)
(***************************************************************************)
\* the faults classified: statuses of every class, wait hints of a 429 body
\* in hundredths of a second (none, 0, 0.05 s, 2 s), and messages with and
\* without a network error code
ClassifyInputs ==
  LET statuses == {400, 401, 403, 404, 409, 429, 500, 501, 502, 503, 504}
      hints == {Undefined, 0, 5, 200}
      api == { Fault("DiscordAPIError", t[1], t[2], t[3], <<"api">>) :
                 t \in { u \in (statuses \cup PlatformCodes) \X statuses \X hints :
                           /\ u[1] \in PlatformCodes \/ u[1] = u[2]
                           /\ u[3] # Undefined => u[2] = 429 } }
      http == { Fault("HTTPError", Undefined, st, Undefined, <<"http">>) : st \in statuses }
      generic == { Fault("Error", Undefined, Undefined, Undefined, m) :
                     m \in { <<"read", "ECONNRESET">>,
                             <<"getaddrinfo", "ENOTFOUND", "discord.com">>,
                             <<"connect", "ETIMEDOUT">>,
                             <<"connect", "ECONNREFUSED">>,
                             <<"Discord", "client", "is", "not", "ready">>,
                             <<"Invalid", "parameters:", "channel_id">>,
                             <<>> } }
  IN api \cup http \cup generic \cup OtherFaults \cup Faults

\* the policies of RetryConfig, and one with jitter and a cap that the
\* backoff reaches within the attempts modelled
ClassifyInit ==
  /\ policy \in { p \in RetryConfig : p.maxAttempts = MaxAttemptsBound }
                  \cup { [maxAttempts |-> MaxAttemptsBound, baseDelay |-> 1000,
                          maxDelay |-> 1500, jitter |-> TRUE,
                          retryableErrors |-> DefaultRetryableErrors] }
  /\ RetryStart
  /\ ToolIdle
  /\ FileIdle
  /\ cFault \in ClassifyInputs
  /\ cError = Null
  /\ cAttempt \in 0..(MaxAttemptsBound - 1)
  /\ cDelay = Undefined

\* const discordError = DiscordErrorHandler.handleError(error)
Classify ==
  /\ cFault # NoFault
  /\ cError = Null
  /\ cError' = handleError(cFault)
  /\ UNCHANGED <<cFault, cAttempt, cDelay>>
  /\ UNCHANGED <<retryVars, toolVars, fileVars, peer>>

\* const delay = this.calculateDelay(discordError, attempt)
ComputeDelay(random) ==
  /\ cError # Null
  /\ cError.isRetryable
  /\ cDelay = Undefined
  /\ cDelay' = calculateDelay(cError, cAttempt, random)
  /\ UNCHANGED <<cFault, cError, cAttempt>>
  /\ UNCHANGED <<retryVars, toolVars, fileVars, peer>>

ClassifyNext ==
  \/ Classify
  \/ \E random \in RandomSamples : ComputeDelay(random)

ClassifySpec == ClassifyInit /\ [][ClassifyNext]_vars

\* C11: handleError is total: every fault, of any class, is classified (the
\* step is always possible) into one error with one of the seven kinds and
\* an Error object as its cause; a thrown value that is not an Error object
\* is classified UNKNOWN, not retryable, with a synthesized Error as cause.
C11_ClassifyTotal ==
  /\ (cFault # NoFault /\ cError = Null) => ENABLED Classify
  /\ cError # Null =>
       /\ cError.type \in DiscordErrorType
       /\ cError.isRetryable \in BOOLEAN
       /\ cError.originalError.cls \in {"DiscordAPIError", "HTTPError", "Error"}
       /\ cFault.cls = "other" =>
            /\ cError.type = UNKNOWN
            /\ ~cError.isRetryable
            /\ cError.originalError # cFault
            /\ cError.originalError.message = <<"String(error)">>
       /\ cFault.cls # "other" => cError.originalError = cFault

C11_Witness ==
  /\ cFault.cls = "other"
  /\ cError.type = UNKNOWN
  /\ cError.originalError.cls = "Error"

\* C12 (as stated): a classified error is retryable exactly when its kind is
\* RATE_LIMITED or NETWORK_ERROR.
C12_RetryableIffKind ==
  cError # Null =>
    (cError.isRetryable <=> cError.type \in {RATE_LIMITED, NETWORK_ERROR})

\* C12 (as amended): every RATE_LIMITED and NETWORK_ERROR error is retryable;
\* PERMISSION_DENIED, NOT_FOUND, AUTHENTICATION_ERROR and INVALID_PARAMETERS
\* errors never are; an UNKNOWN error is retryable exactly when it classifies
\* a DiscordAPIError whose status is at least 500.
C12_RetryableByKind ==
  cError # Null =>
    /\ cError.type \in {RATE_LIMITED, NETWORK_ERROR} => cError.isRetryable
    /\ cError.type \in {PERMISSION_DENIED, NOT_FOUND, AUTHENTICATION_ERROR,
                         INVALID_PARAMETERS} => ~cError.isRetryable
    /\ cError.type = UNKNOWN =>
         (cError.isRetryable <=>
            (cFault.cls = "DiscordAPIError" /\ cFault.status >= 500))

C12_Witness ==
  /\ cError.type = UNKNOWN
  /\ cError.isRetryable
  /\ cFault.status = 501
  /\ cDelay # Undefined

\* the backoff of calculateDelay for attempt n, up to the jitter of 10%
IsBackoff(delay, n) ==
  LET raw == policy.baseDelay * 2^n
      capped == IF raw < policy.maxDelay THEN raw ELSE policy.maxDelay
      floored(d) == IF d > 100 THEN d ELSE 100
  IN IF policy.jitter
       THEN /\ delay >= floored((capped * 9) \div 10)
            /\ delay <= floored((capped * 11) \div 10)
       ELSE delay = floored(capped)

\* C13 (as stated): retryAfter is set exactly when the kind is RATE_LIMITED
\* and the fault exposed a wait hint; without a hint the delay is the
\* computed backoff.
C13_RetryAfterIffHint ==
  cError # Null =>
    /\ cError.retryAfter # Undefined <=>
         (cError.type = RATE_LIMITED /\ cFault.retry_after # Undefined)
    /\ (cDelay # Undefined /\ cFault.retry_after = Undefined) =>
         IsBackoff(cDelay, cAttempt)

\* C13 (as amended): retryAfter is set exactly when the kind is RATE_LIMITED;
\* it is the hint times 1000 when the fault exposed a non-zero wait hint and
\* 1000 when the hint is absent or 0; the delay of a RATE_LIMITED error is
\* its retryAfter and the delay of any other retryable error is the computed
\* backoff.
C13_RetryAfterIffRateLimited ==
  cError # Null =>
    /\ cError.retryAfter # Undefined <=> cError.type = RATE_LIMITED
    /\ cError.type = RATE_LIMITED =>
         cError.retryAfter * 100 =
           (IF cFault.retry_after \in {Undefined, 0}
              THEN 100 ELSE cFault.retry_after) * 1000
    /\ cDelay # Undefined =>
         IF cError.type = RATE_LIMITED
           THEN cDelay = cError.retryAfter
           ELSE IsBackoff(cDelay, cAttempt)

C13_Witness ==
  /\ cError.type = RATE_LIMITED
  /\ cFault.retry_after = Undefined
  /\ cAttempt = 2
  /\ policy.baseDelay = 1000
  /\ cDelay = 1000


\* C38: the kind of a classified DiscordAPIError is decided by its HTTP
\* status alone (404 NOT_FOUND, 403 PERMISSION_DENIED, 401
\* AUTHENTICATION_ERROR, 400 INVALID_PARAMETERS, 429 RATE_LIMITED), whatever
\* its platform code, and the recorded code is the value that decided it.
C38_KindFromStatus ==
  (cError # Null /\ cFault.cls = "DiscordAPIError") =>
    /\ cError.code = cFault.status
    /\ cFault.status = 404 => cError.type = NOT_FOUND
    /\ cFault.status = 403 => cError.type = PERMISSION_DENIED
    /\ cFault.status = 401 => cError.type = AUTHENTICATION_ERROR
    /\ cFault.status = 400 => cError.type = INVALID_PARAMETERS
    /\ cFault.status = 429 => cError.type = RATE_LIMITED

\* C34 as stated: every delay computed for a sleep is at most maxDelay.
C34_DelayAtMostMaxDelay ==
  cDelay # Undefined => cDelay <= policy.maxDelay

\* C34 amended: a delay computed from the backoff is at most maxDelay (or
\* the 100 ms minimum) without jitter and at most 10% more with jitter; a
\* delay taken from a rate-limit hint is the hint, whatever maxDelay is.
C34_DelayBound ==
  cDelay # Undefined =>
    IF cError.retryAfter # Undefined
      THEN cDelay = cError.retryAfter
      ELSE cDelay <= Max(policy.maxDelay, 100)
                       + (IF policy.jitter THEN policy.maxDelay \div 10 ELSE 0)

C34_Witness ==
  /\ policy.jitter
  /\ policy.maxDelay = 1500
  /\ cError.type = NETWORK_ERROR
  /\ cAttempt = 1
  /\ cDelay = 1649

(***************************************************************************)
(* ToolSpec: one CallTool request.  The request names a tool; the tool's   *)
(* execute runs its body inside executeWithErrorHandling.  The body        *)
(* returns, or throws one of: the Error of validateParams, an Error of the *)
(* tool itself, the raw fault of a direct client call, or the DiscordError *)
(* object that executeWithRetry throws for a facade call.                  *)
(***************************************************************************)
RegisteredTools == {"send_message", "get_user_info"}

\* what the body of execute does: shape "none" returns; "raw" throws `fault`
\* itself (the Error of validateParams, an Error of the tool, or the fault
\* of a direct client call); "classified" throws handleError(fault), the
\* object thrown by executeWithRetry
ToolCalls ==
  LET validation == Fault("Error", Undefined, Undefined, Undefined,
                          <<"Invalid parameters:", "channel_id:", "Channel ID is required">>)
      notFound == Fault("Error", Undefined, Undefined, Undefined, <<"Guild", "not", "found">>)
  IN { [tool |-> t, shape |-> "none", fault |-> NoFault] :
         t \in RegisteredTools \cup {"no_such_tool"} }
       \cup { [tool |-> t, shape |-> "raw", fault |-> f] :
                t \in RegisteredTools, f \in Faults \cup {validation, notFound} }
       \cup { [tool |-> t, shape |-> "classified", fault |-> f] :
                t \in RegisteredTools, f \in Faults }

getSuggestedAction(discordError) ==
  CASE discordError.type = AUTHENTICATION_ERROR ->
         "Check your Discord bot token in the .env file"
    [] discordError.type = PERMISSION_DENIED ->
         "Ensure the bot has the required permissions for this channel/server"
    [] discordError.type = NOT_FOUND ->
         "Verify the channel/message ID exists and the bot has access to it"
    [] discordError.type = RATE_LIMITED ->
         "Wait for the rate limit to reset before retrying"
    [] discordError.type = NETWORK_ERROR ->
         "Check your internet connection and try again"
    [] discordError.type = INVALID_PARAMETERS ->
         "Review the parameter format and try again"
    [] OTHER -> "Check the logs for more details and try again"

\* the catch block of executeWithErrorHandling: the MCPError it throws.  The
\* DiscordError thrown by executeWithRetry is a plain object, not an Error
executeWithErrorHandling(call) ==
  IF call.shape = "none"
    THEN NoOutcome
    ELSE LET caught == IF call.shape = "classified"
                         THEN Fault("other", Undefined, Undefined, Undefined, <<>>)
                         ELSE call.fault
             discordError == handleError(caught)
         IN [threw |-> TRUE,
             code |-> discordError.type,
             message |-> discordError.message,
             details |-> Details(TRUE, discordError, discordError.isRetryable,
                                 getSuggestedAction(discordError))]

ToolInit ==
  /\ policy \in { p \in RetryConfig : p.maxAttempts = MaxAttemptsBound /\ p.jitter }
  /\ RetryStart
  /\ ClassifyIdle
  /\ FileIdle
  /\ tCall \in ToolCalls
  /\ tPc = "received"
  /\ tOutcome = NoOutcome
  /\ tResponse = Surfaced("none", FALSE, <<>>, NoDetails)
  /\ tStep = 1
  /\ tRemote = <<>>
  /\ ready = TRUE

\* const tool = this.tools.get(name); if (!tool) throw new Error(...)
UnknownTool ==
  /\ tPc = "received"
  /\ tCall.tool \notin RegisteredTools
  /\ tResponse' = Surfaced("thrown", TRUE, <<"Unknown tool:", tCall.tool>>, NoDetails)
  /\ tPc' = "done"
  /\ UNCHANGED <<tCall, tOutcome, tStep, tRemote, ready>>
  /\ UNCHANGED <<retryVars, classifyVars, fileVars, peer>>

\* await tool.execute(args) settles
ToolExecutes ==
  /\ tPc = "received"
  /\ tCall.tool \in RegisteredTools
  /\ tOutcome' = executeWithErrorHandling(tCall)
  /\ tPc' = "executed"
  /\ UNCHANGED <<tCall, tResponse, tStep, tRemote, ready>>
  /\ UNCHANGED <<retryVars, classifyVars, fileVars, peer>>

\* the handler returns the result, or the error `in MCP format`: message is
\* error.message for an Error and String(error) otherwise, details is
\* error.details || null
HandlerReturns ==
  /\ tPc = "executed"
  /\ tResponse' =
       IF tOutcome.threw
         THEN Surfaced("result", TRUE, <<"[object Object]">>, tOutcome.details)
         ELSE Surfaced("result", FALSE, <<"success">>, NoDetails)
  /\ tPc' = "done"
  /\ UNCHANGED <<tCall, tOutcome, tStep, tRemote, ready>>
  /\ UNCHANGED <<retryVars, classifyVars, fileVars, peer>>

ToolNext ==
  \/ UnknownTool
  \/ ToolExecutes
  \/ HandlerReturns

ToolSpec == ToolInit /\ [][ToolNext]_vars

\* C14: every failure surfaced to the host is a classified-error-shaped
\* object: it is returned (not a raw thrown fault) and carries the
\* human-readable message of the classified error, one of the seven kinds
\* and the retryability flag, on every failure path.
C14_FailuresClassified ==
  (tResponse.channel = "thrown" \/ tResponse.isError) =>
    /\ tResponse.channel = "result"
    /\ tResponse.details.present
    /\ tResponse.details.discordError.type \in DiscordErrorType
    /\ tResponse.details.retryable = tResponse.details.discordError.isRetryable
    /\ tResponse.message = tResponse.details.discordError.message

\* C32: when the facade operation has failed with the classified error e,
\* the MCPError that the tool throws has code = e.type, retryable =
\* e.isRetryable and the message of e.
C32_ReclassifyPreserves ==
  (tPc \in {"executed", "done"} /\ tCall.shape = "classified") =>
    LET e == handleError(tCall.fault)
    IN /\ tOutcome.threw
       /\ tOutcome.code = e.type
       /\ tOutcome.details.retryable = e.isRetryable
       /\ tOutcome.message = e.message

(***************************************************************************)
(* FileSpec: the attachment pipeline of FileProcessor.  Strings that the   *)
(* code inspects are sequences of one-character strings.  An inline-data   *)
(* string is prefix \o "AAAA"^quads \o tail, and a buffer is               *)
(* pre \o 0^zeros \o post, so that buffers of 8 MiB are representable.     *)
(***************************************************************************)
MAX_FILE_SIZE == 8388608

FETCH_TIMEOUT == 30000

\* the most descriptors in one batch
MaxFiles == 2

DataString(prefix, quads, tail) == [prefix |-> prefix, quads |-> quads, tail |-> tail]

EmptyString == DataString(<<>>, 0, <<>>)

DataLength(data) == Len(data.prefix) + 4 * data.quads + Len(data.tail)

Buffer(pre, zeros, post) == [pre |-> pre, zeros |-> zeros, post |-> post]

EmptyBuffer == Buffer(<<>>, 0, <<>>)

BufferLength(buffer) == Len(buffer.pre) + buffer.zeros + Len(buffer.post)

\* String.prototype.includes for a one-character needle
includes(str, ch) == \E i \in 1..Len(str) : str[i] = ch

\* String.prototype.includes for a two-character needle
includes2(str, c1, c2) == \E i \in 1..(Len(str) - 1) : str[i] = c1 /\ str[i + 1] = c2

\* the part of str before its first ch
upTo(str, ch) ==
  IF includes(str, ch)
    THEN SubSeq(str, 1, (CHOOSE i \in 1..Len(str) :
                           str[i] = ch /\ \A j \in 1..(i - 1) : str[j] # ch) - 1)
    ELSE str

\* data.split(',')[1]
splitSecond(data) ==
  LET after(str) == SubSeq(str, Len(upTo(str, ",")) + 2, Len(str))
  IN IF includes(data.prefix, ",")
       THEN IF includes(after(data.prefix), ",")
              THEN DataString(upTo(after(data.prefix), ","), 0, <<>>)
              ELSE DataString(after(data.prefix), data.quads, upTo(data.tail, ","))
       ELSE DataString(<<>>, 0, upTo(after(data.tail), ","))

\* the value of a base64 character, Undefined for a character outside the
\* alphabet; the URL-safe characters are accepted as well
unbase64(c) ==
  LET alphabet ==
        <<"A", "B", "C", "D", "E", "F", "G", "H", "I", "J", "K", "L", "M",
          "N", "O", "P", "Q", "R", "S", "T", "U", "V", "W", "X", "Y", "Z",
          "a", "b", "c", "d", "e", "f", "g", "h", "i", "j", "k", "l", "m",
          "n", "o", "p", "q", "r", "s", "t", "u", "v", "w", "x", "y", "z",
          "0", "1", "2", "3", "4", "5", "6", "7", "8", "9", "+", "/">>
  IN CASE c = "-" -> 62
       [] c = "_" -> 63
       [] \E i \in 1..64 : alphabet[i] = c -> (CHOOSE i \in 1..64 : alphabet[i] = c) - 1
       [] OTHER -> Undefined

RECURSIVE decodeGroups(_)
\* four characters give three bytes, three give two, two give one
decodeGroups(str) ==
  LET v(i) == unbase64(str[i])
      b1 == v(1) * 4 + (v(2) \div 16)
      b2 == (v(2) % 16) * 16 + (v(3) \div 4)
      b3 == (v(3) % 4) * 64 + v(4)
  IN CASE Len(str) >= 4 -> <<b1, b2, b3>> \o decodeGroups(SubSeq(str, 5, Len(str)))
       [] Len(str) = 3 -> <<b1, b2>>
       [] Len(str) = 2 -> <<b1>>
       [] OTHER -> <<>>

\* Buffer.from(base64Data, 'base64'): the decoder stops at the first '=' and
\* skips every other character outside the alphabet
BufferFrom(data) ==
  LET legal(str) == SelectSeq(upTo(str, "="), LAMBDA c : unbase64(c) # Undefined)
      As(n) == [i \in 1..n |-> "A"]
      head == legal(data.prefix)
      run == 4 * data.quads
      fill == Min((4 - (Len(head) % 4)) % 4, run)
      rest == run - fill
  IN CASE includes(data.prefix, "=") -> Buffer(decodeGroups(head), 0, <<>>)
       [] rest < 4 -> Buffer(decodeGroups(head \o As(run) \o legal(data.tail)), 0, <<>>)
       [] OTHER -> Buffer(decodeGroups(head \o As(fill)), 3 * (rest \div 4),
                          decodeGroups(As(rest % 4) \o legal(data.tail)))

\* a formatted size: hundredths of the unit
Size(hundredths, unit) == [hundredths |-> hundredths, unit |-> unit]

NoSize == Size(0, "")

\* (bytes / Math.pow(1024, i)).toFixed(2) + ' ' + sizes[i], with
\* i = Math.floor(Math.log(bytes) / Math.log(1024))
formatFileSize(bytes) ==
  LET sizes == <<"B", "KB", "MB", "GB">>
      i == CASE bytes >= 1073741824 -> 3
             [] bytes >= 1048576 -> 2
             [] bytes >= 1024 -> 1
             [] OTHER -> 0
      unit == Pow2(10 * i)
  IN IF bytes = 0
       THEN Size(0, "B")
       ELSE Size((bytes * 200 + unit) \div (2 * unit), sizes[i + 1])

\* an Error of the pipeline: `text` is its message template, `via` the
\* prefix added by the catch of the helper that threw it, `name` the file
\* name added by the catch of processAttachment
FileError(text, actual, max) ==
  [text |-> text, actual |-> actual, max |-> max, via |-> "", outer |-> "", name |-> <<>>]

NoError == FileError("", NoSize, NoSize)

FileAttachment(name, data, url, path, description, spoiler) ==
  [name |-> name, data |-> data, url |-> url, path |-> path,
   description |-> description, spoiler |-> spoiler]

\* [file.data, file.url, file.path].filter(Boolean).length
dataSourceCount(file) ==
  (IF DataLength(file.data) > 0 THEN 1 ELSE 0)
    + (IF Len(file.url) > 0 THEN 1 ELSE 0)
    + (IF Len(file.path) > 0 THEN 1 ELSE 0)

\* the message validateFileAttachment throws, "" when it returns
validateFileAttachmentAtLeastOne(file) ==
  CASE Len(file.name) = 0 -> "File attachment must have a valid name"
    [] dataSourceCount(file) = 0 ->
         "File attachment must have at least one data source (data, url, or path)"
    [] Len(file.name) > 100 -> "Filename too long (max 100 characters)"
    [] \E i \in 1..Len(file.name) : file.name[i] \in {"<", ">", ":", "\"", "/", "\\", "|", "?", "*"} ->
         "Filename contains invalid characters"
    [] OTHER -> ""

validateFileAttachment(file) ==
  CASE Len(file.name) = 0 -> "File attachment must have a valid name"
    [] dataSourceCount(file) = 0 ->
         "File attachment must have at least one data source (data, url, or path)"
    [] dataSourceCount(file) > 1 ->
         "File attachment must have exactly one data source (data, url, or path)"
    [] Len(file.name) > 100 -> "Filename too long (max 100 characters)"
    [] \E i \in 1..Len(file.name) : file.name[i] \in {"<", ">", ":", "\"", "/", "\\", "|", "?", "*"} ->
         "Filename contains invalid characters"
    [] OTHER -> ""

\* what a helper of the pipeline settles with
Settled(buffer, error) == [buffer |-> buffer, error |-> error]

\* the catch of a helper prefixes the message
Via(prefix, error) == [error EXCEPT !.via = prefix]

processBase64Data(data) ==
  LET base64Data == IF includes(data.prefix, ",") \/ includes(data.tail, ",")
                      THEN splitSecond(data)
                      ELSE data
      buffer == BufferFrom(base64Data)
  IN CASE DataLength(base64Data) = 0 ->
            Settled(EmptyBuffer, Via("Failed to decode base64 data",
                                     FileError("Invalid base64 data format", NoSize, NoSize)))
       [] BufferLength(buffer) = 0 ->
            Settled(EmptyBuffer, Via("Failed to decode base64 data",
                                     FileError("Base64 data resulted in empty buffer", NoSize, NoSize)))
       [] OTHER -> Settled(buffer, NoError)

\* buffer.length > FileProcessor.MAX_FILE_SIZE
tooLargeInclusive(buffer) == BufferLength(buffer) >= MAX_FILE_SIZE

\* a final size check against ten times the limit
tooLargeTenfold(buffer) == BufferLength(buffer) > 10 * MAX_FILE_SIZE

tooLarge(buffer) == BufferLength(buffer) > MAX_FILE_SIZE

NaN == Undefined

\* parseInt(str) of a string without sign or leading blanks: the value of
\* its leading digits, NaN when it has none
parseInt(str) ==
  LET digits == <<"0", "1", "2", "3", "4", "5", "6", "7", "8", "9">>
      isDigit(c) == \E i \in 1..10 : digits[i] = c
      RECURSIVE parseDigits(_, _)
      parseDigits(rest, acc) ==
        IF Len(rest) > 0 /\ isDigit(Head(rest))
          THEN parseDigits(Tail(rest), 10 * acc + (CHOOSE i \in 1..10 : digits[i] = Head(rest)) - 1)
          ELSE acc
  IN IF Len(str) > 0 /\ isDigit(Head(str)) THEN parseDigits(str, 0) ELSE NaN

\* contentLength && parseInt(contentLength) > FileProcessor.MAX_FILE_SIZE
declaredTooLargeTenfold(contentLength) ==
  /\ Len(contentLength) > 0
  /\ parseInt(contentLength) # NaN
  /\ parseInt(contentLength) > 10 * MAX_FILE_SIZE

declaredTooLarge(contentLength) ==
  /\ Len(contentLength) > 0
  /\ parseInt(contentLength) # NaN
  /\ parseInt(contentLength) > MAX_FILE_SIZE

\* filePath.includes('..') || filePath.includes('~')
traversalDotsOnly(filePath) == includes2(filePath, ".", ".")

traversal(filePath) == includes2(filePath, ".", ".") \/ includes(filePath, "~")

\* file.spoiler ? `SPOILER_${file.name}` : file.name
attachmentNameAlways(file) == <<"S", "P", "O", "I", "L", "E", "R", "_">> \o file.name

attachmentName(file) ==
  IF file.spoiler
    THEN <<"S", "P", "O", "I", "L", "E", "R", "_">> \o file.name
    ELSE file.name

\* new AttachmentBuilder(buffer, { name, description })
AttachmentBuilder(buffer, name, description) ==
  [buffer |-> buffer, name |-> name, description |-> description]

NoAttachment == AttachmentBuilder(EmptyBuffer, <<>>, EmptyString)

\* one call of processAttachment: where it stands, what its helper settled
\* with, the I/O it has issued, what fs.stat returned, the abort timer, and
\* its result
Task(at, buffer, error, attachment) ==
  [pc |-> at, buffer |-> buffer, error |-> error, attachment |-> attachment,
   fetchIssued |-> FALSE, bodyRead |-> FALSE, statIssued |-> FALSE,
   stats |-> [isFile |-> FALSE, size |-> Undefined],
   readIssued |-> FALSE, timer |-> "none"]

\* the catch of processAttachment
rejected(task, file, error) ==
  [task EXCEPT !.pc = "rejected",
               !.error = [error EXCEPT !.outer = "Failed to process attachment",
                                       !.name = file.name]]

\* processAttachment after its helper settled: the size check and the
\* construction of the attachment
settle(task, file, settled) ==
  CASE settled.error # NoError -> rejected(task, file, settled.error)
    [] tooLarge(settled.buffer) ->
         rejected([task EXCEPT !.buffer = settled.buffer], file,
                  FileError("File is too large",
                            formatFileSize(BufferLength(settled.buffer)),
                            formatFileSize(MAX_FILE_SIZE)))
    [] OTHER ->
         [task EXCEPT !.pc = "resolved",
                      !.buffer = settled.buffer,
                      !.attachment = AttachmentBuilder(settled.buffer, attachmentName(file),
                                                       file.description)]

\* a helper that settled without waiting for I/O: processAttachment resumes
\* from its await in a later turn
awaiting(task, settled) ==
  [task EXCEPT !.pc = "await", !.buffer = settled.buffer, !.error = settled.error]

\* a protocol check that accepts every scheme
supportedProtocolAny(url) == TRUE

\* ['http:', 'https:'].includes(urlObj.protocol)
supportedProtocol(url) == url[1] \in {"http:", "https:"}

\* processAttachment up to its first await.  A URL is the sequence
\* <<protocol, rest>>; a string without a scheme has one element and
\* new URL(url) throws on it
start(file) ==
  LET task == Task("start", EmptyBuffer, NoError, NoAttachment)
      invalid == validateFileAttachment(file)
  IN CASE invalid # "" -> rejected(task, file, FileError(invalid, NoSize, NoSize))
       [] DataLength(file.data) > 0 -> awaiting(task, processBase64Data(file.data))
       [] Len(file.url) > 0 ->
            CASE Len(file.url) # 2 ->
                   awaiting(task, Settled(EmptyBuffer,
                     Via("Failed to fetch from URL", FileError("Invalid URL", NoSize, NoSize))))
              [] ~supportedProtocol(file.url) ->
                   awaiting(task, Settled(EmptyBuffer,
                     Via("Failed to fetch from URL",
                         FileError("Only HTTP and HTTPS URLs are supported", NoSize, NoSize))))
              [] OTHER -> [task EXCEPT !.pc = "fetch", !.fetchIssued = TRUE, !.timer = "armed"]
       [] Len(file.path) > 0 ->
            IF traversal(file.path)
              THEN awaiting(task, Settled(EmptyBuffer,
                     Via("Failed to read file", FileError("Path traversal not allowed", NoSize, NoSize))))
              ELSE [task EXCEPT !.pc = "stat", !.statIssued = TRUE]
       [] OTHER -> rejected(task, file, FileError("No valid file source provided for attachment",
                                                  NoSize, NoSize))

\* Promise.all over the tasks: rejected with the first rejection, resolved
\* with every attachment in index order once all have resolved
promiseAllSettled(tasks, first) ==
  IF \A i \in 1..Len(tasks) : tasks[i].pc \in {"resolved", "rejected"}
    THEN [state |-> "resolved",
          value |-> LET done == SelectSeq(tasks, LAMBDA t : t.pc = "resolved")
                    IN [i \in 1..Len(done) |-> done[i].attachment]]
    ELSE [state |-> "pending", value |-> <<>>]

\* a combinator that rejects only once every task has settled
promiseAllWaits(tasks, first) ==
  CASE \E i \in 1..Len(tasks) : tasks[i].pc \notin {"resolved", "rejected"} ->
         [state |-> "pending", value |-> <<>>]
    [] first # 0 -> [state |-> "rejected", value |-> <<>>]
    [] OTHER -> [state |-> "resolved", value |-> [i \in 1..Len(tasks) |-> tasks[i].attachment]]

promiseAll(tasks, first) ==
  CASE first # 0 -> [state |-> "rejected", value |-> <<>>]
    [] \A i \in 1..Len(tasks) : tasks[i].pc = "resolved" ->
         [state |-> "resolved", value |-> [i \in 1..Len(tasks) |-> tasks[i].attachment]]
    [] OTHER -> [state |-> "pending", value |-> <<>>]

\* the descriptors of the modelled requests: with one source each, accepted
\* by the checks of the helpers or not, one with a description of 1025
\* characters, and with no source or several, one of these named ECONNRESET.
\* atLimit is the base64 of MAX_FILE_SIZE zero bytes, overLimit of one more
Descriptors ==
  LET nameA == <<"a", ".", "t", "x", "t">>
      nameBig == <<"b", "i", "g">>
      hello == DataString(<<>>, 0, <<"a", "G", "V", "s", "b", "G", "8", "=">>)
      dataUrl == DataString(<<"d", "a", "t", "a", ":", ";", "b", "a", "s", "e", "6", "4", ",">>,
                            0, <<"a", "G", "V", "s", "b", "G", "8", "=">>)
      atLimit == DataString(<<>>, MAX_FILE_SIZE \div 3, <<"A", "A", "A", "=">>)
      overLimit == DataString(<<>>, MAX_FILE_SIZE \div 3, <<"A", "A", "A", "A">>)
      https == <<"https:", "//cdn.example/a.png">>
      plain == <<"/", "t", "m", "p", "/", "a">>
      dots == <<"/", "t", "m", "p", "/", ".", ".", "/", "a">>
  IN { FileAttachment(nameA, hello, <<>>, <<>>, EmptyString, sp) : sp \in BOOLEAN }
       \cup { FileAttachment(nameA, dataUrl, <<>>, <<>>, DataString(<<"a", "l", "t">>, 0, <<>>), TRUE),
              FileAttachment(nameA, DataString(<<"d", ":", ",">>, 0, <<>>), <<>>, <<>>, EmptyString, FALSE),
              FileAttachment(nameBig, atLimit, <<>>, <<>>, EmptyString, FALSE),
              FileAttachment(nameBig, overLimit, <<>>, <<>>, EmptyString, FALSE),
              FileAttachment(<<"a", "?">>, hello, <<>>, <<>>, EmptyString, FALSE),
              FileAttachment(nameA, EmptyString, https, <<>>, EmptyString, TRUE),
              FileAttachment(nameA, EmptyString, <<"ftp:", "//host/a.png">>, <<>>, EmptyString, FALSE),
              FileAttachment(nameA, EmptyString, <<"not a url">>, <<>>, EmptyString, FALSE),
              FileAttachment(nameA, EmptyString, <<>>, plain, EmptyString, FALSE),
              FileAttachment(nameA, EmptyString, <<>>, dots, EmptyString, FALSE),
              FileAttachment(nameA, EmptyString, <<>>, <<"~", "/", "a">>, EmptyString, FALSE) }
       \cup { FileAttachment(nameA, hello, <<>>, <<>>, DataString(<<>>, 256, <<"x">>), FALSE) }
       \cup { FileAttachment(nameA, EmptyString, <<>>, <<>>, EmptyString, FALSE),
              FileAttachment(nameA, hello, https, <<>>, EmptyString, FALSE),
              FileAttachment(nameA, EmptyString, https, plain, EmptyString, FALSE),
              FileAttachment(nameA, hello, <<>>, dots, EmptyString, FALSE),
              FileAttachment(nameA, hello, https, plain, EmptyString, FALSE),
              FileAttachment(<<"ECONNRESET">>, hello, https, <<>>, EmptyString, FALSE) }

\* what the environment answers
ContentLengths == { <<>>, <<"5">>, <<"9", "0", "0", "0", "0", "0", "0">>, <<"a", "b", "c">> }

\* "hello", and a body of one byte more than the limit
Bodies == { Buffer(<<104, 101, 108, 108, 111>>, 0, <<>>), Buffer(<<>>, MAX_FILE_SIZE + 1, <<>>) }

StatSizes == { 5, MAX_FILE_SIZE, MAX_FILE_SIZE + 1 }

FsCodes == { "ENOENT", "EACCES", "EIO" }

\* the catch of readFromPath
fsError(code) ==
  CASE code = "ENOENT" -> FileError("File not found", NoSize, NoSize)
    [] code = "EACCES" -> FileError("Permission denied", NoSize, NoSize)
    [] OTHER -> Via("Failed to read file", FileError(code, NoSize, NoSize))

FileInit ==
  /\ policy \in { p \in RetryConfig : p.maxAttempts = MaxAttemptsBound /\ p.jitter }
  /\ RetryStart
  /\ ClassifyIdle
  /\ ToolIdle
  /\ fFiles \in UNION { [1..n -> Descriptors] : n \in 0..MaxFiles }
  /\ fTasks = <<>>
  /\ fPc = "called"
  /\ fFirst = 0
  /\ fBatch = <<>>
  /\ fSent = <<>>
  /\ fRuns = 0

\* processAttachments up to its await: files.map starts every
\* processAttachment in index order
ProcessAttachments ==
  /\ fPc = "called"
  /\ IF Len(fFiles) = 0
       THEN /\ fPc' = "resolved"
            /\ UNCHANGED <<fTasks, fFirst>>
       ELSE LET tasks == [i \in 1..Len(fFiles) |-> start(fFiles[i])]
                failed == { i \in 1..Len(tasks) : tasks[i].pc = "rejected" }
            IN /\ fTasks' = tasks
               /\ fFirst' = IF failed = {} THEN 0
                            ELSE CHOOSE i \in failed : \A j \in failed : i <= j
               /\ fPc' = "processing"
  /\ fRuns' = fRuns + 1
  /\ UNCHANGED <<fFiles, fBatch, fSent>>
  /\ UNCHANGED <<retryVars, classifyVars, toolVars, peer>>

\* the last rejection reported in place of the first
StepLastRejection(i, task) ==
  /\ fTasks' = [fTasks EXCEPT ![i] = task]
  /\ fFirst' = IF task.pc = "rejected" THEN i ELSE fFirst
  /\ UNCHANGED <<fFiles, fPc, fBatch, fSent, fRuns>>
  /\ UNCHANGED <<retryVars, classifyVars, toolVars, peer>>

\* task i moves on; the first rejection is the one Promise.all reports
Step(i, task) ==
  /\ fTasks' = [fTasks EXCEPT ![i] = task]
  /\ fFirst' = IF fFirst = 0 /\ task.pc = "rejected" THEN i ELSE fFirst
  /\ UNCHANGED <<fFiles, fPc, fBatch, fSent, fRuns>>
  /\ UNCHANGED <<retryVars, classifyVars, toolVars, peer>>

\* processAttachment resumes after a helper that did no I/O
Resume(i) ==
  /\ fTasks[i].pc = "await"
  /\ Step(i, settle(fTasks[i], fFiles[i], Settled(fTasks[i].buffer, fTasks[i].error)))

\* fetch resolves with the response headers
FetchResponds(i, ok, contentLength) ==
  /\ fTasks[i].pc = "fetch"
  /\ LET task == [fTasks[i] EXCEPT !.timer = "cleared"]
     IN Step(i,
          CASE ~ok -> rejected(task, fFiles[i],
                        Via("Failed to fetch from URL", FileError("HTTP status", NoSize, NoSize)))
            [] declaredTooLarge(contentLength) ->
                 rejected(task, fFiles[i],
                          Via("Failed to fetch from URL",
                              FileError("File too large",
                                        formatFileSize(parseInt(contentLength)),
                                        formatFileSize(MAX_FILE_SIZE))))
            [] OTHER -> [task EXCEPT !.pc = "body", !.bodyRead = TRUE])

\* the FETCH_TIMEOUT timer fires first: controller.abort()
FetchAborts(i) ==
  /\ fTasks[i].pc = "fetch"
  /\ fTasks[i].timer = "armed"
  /\ Step(i, rejected([fTasks[i] EXCEPT !.timer = "fired"], fFiles[i],
                      FileError("Request timeout while fetching from URL", NoSize, NoSize)))

\* fetch rejects for another reason
FetchFails(i) ==
  /\ fTasks[i].pc = "fetch"
  /\ Step(i, rejected([fTasks[i] EXCEPT !.timer = "cleared"], fFiles[i],
                      Via("Failed to fetch from URL", FileError("fetch failed", NoSize, NoSize))))

\* response.arrayBuffer() resolves
BodyArrives(i, body) ==
  /\ fTasks[i].pc = "body"
  /\ Step(i, settle(fTasks[i], fFiles[i], Settled(body, NoError)))

\* response.arrayBuffer() rejects
BodyFails(i) ==
  /\ fTasks[i].pc = "body"
  /\ Step(i, rejected(fTasks[i], fFiles[i],
                      Via("Failed to fetch from URL", FileError("terminated", NoSize, NoSize))))

\* fs.stat resolves and the file is read whatever it returned
StatReturnsUnchecked(i, isFile, size) ==
  /\ fTasks[i].pc = "stat"
  /\ Step(i, [fTasks[i] EXCEPT !.stats = [isFile |-> isFile, size |-> size],
                               !.pc = "read", !.readIssued = TRUE])

\* fs.stat resolves
StatReturns(i, isFile, size) ==
  /\ fTasks[i].pc = "stat"
  /\ LET task == [fTasks[i] EXCEPT !.stats = [isFile |-> isFile, size |-> size]]
     IN Step(i,
          CASE ~isFile -> rejected(task, fFiles[i],
                            Via("Failed to read file",
                                FileError("Path does not point to a file", NoSize, NoSize)))
            [] size > MAX_FILE_SIZE ->
                 rejected(task, fFiles[i],
                          Via("Failed to read file",
                              FileError("File too large", formatFileSize(size),
                                        formatFileSize(MAX_FILE_SIZE))))
            [] OTHER -> [task EXCEPT !.pc = "read", !.readIssued = TRUE])

\* fs.stat rejects
StatFails(i, code) ==
  /\ fTasks[i].pc = "stat"
  /\ Step(i, rejected(fTasks[i], fFiles[i], fsError(code)))

\* fs.readFile resolves
ReadReturns(i, contents) ==
  /\ fTasks[i].pc = "read"
  /\ Step(i, settle(fTasks[i], fFiles[i], Settled(contents, NoError)))

\* fs.readFile rejects
ReadFails(i, code) ==
  /\ fTasks[i].pc = "read"
  /\ Step(i, rejected(fTasks[i], fFiles[i], fsError(code)))

\* the await of processAttachments in sendMessage settles: the operation
\* goes on with all the attachments, or throws
BatchSettles ==
  /\ fPc = "processing"
  /\ LET all == promiseAll(fTasks, fFirst)
     IN /\ all.state # "pending"
        /\ fPc' = IF all.state = "resolved" THEN "resolved" ELSE "failed"
        /\ fBatch' = all.value
  /\ UNCHANGED <<fFiles, fTasks, fFirst, fSent, fRuns>>
  /\ UNCHANGED <<retryVars, classifyVars, toolVars, peer>>

\* textChannel.send(messageOptions), or replyMessage.reply(messageOptions):
\* messageOptions.files is set when there are attachments
Send ==
  /\ fPc = "resolved"
  /\ fSent' = Append(fSent, [files |-> fBatch])
  /\ fPc' = "sent"
  /\ UNCHANGED <<fFiles, fTasks, fFirst, fBatch, fRuns>>
  /\ UNCHANGED <<retryVars, classifyVars, toolVars, peer>>

FileNext ==
  \/ ProcessAttachments
  \/ BatchSettles
  \/ Send
  \/ \E i \in 1..Len(fTasks) :
       \/ Resume(i)
       \/ \E ok \in BOOLEAN, contentLength \in ContentLengths : FetchResponds(i, ok, contentLength)
       \/ FetchAborts(i)
       \/ FetchFails(i)
       \/ \E body \in Bodies : BodyArrives(i, body)
       \/ BodyFails(i)
       \/ \E isFile \in BOOLEAN, size \in StatSizes : StatReturns(i, isFile, size)
       \/ \E code \in FsCodes : StatFails(i, code)
       \/ \E contents \in Bodies : ReadReturns(i, contents)
       \/ \E code \in FsCodes : ReadFails(i, code)

FileSpec == FileInit /\ [][FileNext]_vars

\* the sources that are set on a descriptor
SourcesSet(file) ==
  { k \in {"data", "url", "path"} :
      \/ k = "data" /\ file.data # EmptyString
      \/ k = "url" /\ file.url # <<>>
      \/ k = "path" /\ file.path # <<>> }

\* C15: a descriptor with zero, or with two or more, of {data, url, path}
\* set has failed validation as soon as its processing has started, and no
\* fetch, stat or read has been issued for it then or later.
C15_WrongSourceCountFails ==
  \A i \in 1..Len(fTasks) :
    Cardinality(SourcesSet(fFiles[i])) # 1 =>
      /\ fTasks[i].pc = "rejected"
      /\ fTasks[i].error.text \in
           {"File attachment must have at least one data source (data, url, or path)",
            "File attachment must have exactly one data source (data, url, or path)"}
      /\ ~fTasks[i].fetchIssued /\ ~fTasks[i].bodyRead
      /\ ~fTasks[i].statIssued /\ ~fTasks[i].readIssued

C15_Witness ==
  /\ \E i \in 1..Len(fTasks) :
       SourcesSet(fFiles[i]) = {} /\ fTasks[i].pc = "rejected"
  /\ \E i \in 1..Len(fTasks) :
       Cardinality(SourcesSet(fFiles[i])) >= 2 /\ fTasks[i].pc = "rejected"

\* C16: a descriptor whose only source is a local path containing `..` or
\* `~` fails with the traversal error, and neither stat nor read is ever
\* issued for it.
C16_TraversalNoFilesystem ==
  \A i \in 1..Len(fTasks) :
    (/\ SourcesSet(fFiles[i]) = {"path"}
     /\ \/ \E k \in 1..(Len(fFiles[i].path) - 1) :
             fFiles[i].path[k] = "." /\ fFiles[i].path[k + 1] = "."
        \/ \E k \in 1..Len(fFiles[i].path) : fFiles[i].path[k] = "~")
    => /\ ~fTasks[i].statIssued
       /\ ~fTasks[i].readIssued
       /\ fTasks[i].pc \in {"await", "rejected"}
       /\ fTasks[i].error.text = "Path traversal not allowed"

C16_Witness ==
  /\ \E i \in 1..Len(fTasks) :
       /\ fFiles[i].path = <<"/", "t", "m", "p", "/", ".", ".", "/", "a">>
       /\ fTasks[i].pc = "rejected"
       /\ fTasks[i].error.text = "Path traversal not allowed"
  /\ \E i \in 1..Len(fTasks) :
       /\ fFiles[i].path = <<"~", "/", "a">>
       /\ fTasks[i].pc = "rejected"
       /\ fTasks[i].error.text = "Path traversal not allowed"

\* the size of the bytes that a padded base64 payload encodes
DecodedSize(data) ==
  3 * ((4 * data.quads + Len(data.tail)) \div 4)
    - Cardinality({ k \in 1..Len(data.tail) : data.tail[k] = "=" })

\* C17: an inline-data descriptor whose decoded buffer is larger than
\* 8,388,608 bytes fails with an error that names the actual size and the
\* maximum size; a decoded buffer of exactly 8,388,608 bytes is accepted.
C17_InlineSizeLimit ==
  \A i \in 1..Len(fTasks) :
    (/\ SourcesSet(fFiles[i]) = {"data"}
     /\ validateFileAttachment(fFiles[i]) = ""
     /\ fTasks[i].pc \in {"resolved", "rejected"})
    => /\ DecodedSize(fFiles[i].data) > 8388608 =>
            /\ fTasks[i].pc = "rejected"
            /\ fTasks[i].error.text = "File is too large"
            /\ fTasks[i].error.name = fFiles[i].name
            /\ fTasks[i].error.actual = formatFileSize(DecodedSize(fFiles[i].data))
            /\ fTasks[i].error.actual.unit = "MB"
            /\ fTasks[i].error.max = Size(800, "MB")
       /\ DecodedSize(fFiles[i].data) = 8388608 =>
            /\ fTasks[i].pc = "resolved"
            /\ BufferLength(fTasks[i].attachment.buffer) = 8388608

C17_Witness ==
  /\ \E i \in 1..Len(fTasks) :
       /\ DecodedSize(fFiles[i].data) = 8388609
       /\ fTasks[i].pc = "rejected"
       /\ fTasks[i].error.text = "File is too large"
  /\ \E i \in 1..Len(fTasks) :
       /\ DecodedSize(fFiles[i].data) = 8388608
       /\ fTasks[i].pc = "resolved"

\* C18: when the response to the fetch of a remote-URL descriptor declares
\* a content-length greater than 8,388,608, the descriptor fails with the
\* size-exceeded error and the body is not read.
C18_DeclaredTooLargeFails ==
  [][\A i \in 1..Len(fTasks) : \A ok \in BOOLEAN, contentLength \in ContentLengths :
       (FetchResponds(i, ok, contentLength) /\ parseInt(contentLength) > 8388608)
       => /\ fTasks'[i].pc = "rejected"
          /\ fTasks'[i].error.text = "File too large"
          /\ ~fTasks'[i].bodyRead]_vars

\* C18, amended: with a successful response that declares a content-length
\* greater than 8,388,608 the descriptor fails with the size-exceeded error
\* naming the declared and the maximum size; with an unsuccessful response
\* it fails with the HTTP status error; in both cases the body is not read,
\* then or later.
C18_DeclaredTooLargeOnOk ==
  [][/\ \A i \in 1..Len(fTasks) : \A ok \in BOOLEAN, contentLength \in ContentLengths :
          (FetchResponds(i, ok, contentLength) /\ parseInt(contentLength) > 8388608)
          => /\ fTasks'[i].pc = "rejected"
             /\ ~fTasks'[i].bodyRead
             /\ fTasks'[i].error.text = IF ok THEN "File too large" ELSE "HTTP status"
             /\ ok => /\ fTasks'[i].error.actual = Size(858, "MB")
                      /\ fTasks'[i].error.max = Size(800, "MB")
     /\ \A i \in 1..Len(fTasks) :
          (fTasks[i].pc = "rejected" /\ ~fTasks[i].bodyRead) => ~fTasks'[i].bodyRead]_vars

C18_Witness ==
  \E i \in 1..Len(fTasks) :
    /\ fFiles[i].url = <<"https:", "//cdn.example/a.png">>
    /\ fTasks[i].pc = "rejected"
    /\ fTasks[i].error.text = "File too large"
    /\ fTasks[i].error.via = "Failed to fetch from URL"
    /\ fTasks[i].fetchIssued
    /\ ~fTasks[i].bodyRead

\* C19: every resolved descriptor has the display name "SPOILER_" + name
\* when spoiler is true and exactly name otherwise, and its bytes are the
\* bytes of its source: the decoded inline data ("aGVsbG8=" gives "hello"),
\* the response body, or the file contents.
C19_NameAndBytes ==
  \A i \in 1..Len(fTasks) :
    fTasks[i].pc = "resolved" =>
      /\ fFiles[i].spoiler =>
           fTasks[i].attachment.name = <<"S", "P", "O", "I", "L", "E", "R", "_">> \o fFiles[i].name
      /\ ~fFiles[i].spoiler => fTasks[i].attachment.name = fFiles[i].name
      /\ fFiles[i].data.tail = <<"a", "G", "V", "s", "b", "G", "8", "=">> =>
           fTasks[i].attachment.buffer = Buffer(<<104, 101, 108, 108, 111>>, 0, <<>>)
      /\ DecodedSize(fFiles[i].data) = 8388608 =>
           fTasks[i].attachment.buffer = Buffer(<<>>, 8388606, <<0, 0>>)
      /\ fFiles[i].data = EmptyString =>
           /\ fTasks[i].attachment.buffer \in Bodies
           /\ fTasks[i].attachment.buffer = fTasks[i].buffer
           /\ fTasks[i].bodyRead \/ fTasks[i].readIssued

C19_Witness ==
  /\ \E i \in 1..Len(fTasks) :
       /\ fFiles[i] = FileAttachment(<<"a", ".", "t", "x", "t">>,
                                     DataString(<<>>, 0, <<"a", "G", "V", "s", "b", "G", "8", "=">>),
                                     <<>>, <<>>, EmptyString, FALSE)
       /\ fTasks[i].pc = "resolved"
       /\ fTasks[i].attachment.name = <<"a", ".", "t", "x", "t">>
       /\ fTasks[i].attachment.buffer = Buffer(<<104, 101, 108, 108, 111>>, 0, <<>>)
  /\ \E i \in 1..Len(fTasks) :
       /\ fFiles[i].spoiler
       /\ fTasks[i].pc = "resolved"
       /\ fTasks[i].attachment.name[1] = "S"

\* the attachments, in descriptor order, of a batch whose descriptors have
\* all resolved
InOrder(attachments) ==
  /\ Len(attachments) = Len(fFiles)
  /\ \A i \in 1..Len(fFiles) :
       /\ fTasks[i].pc = "resolved"
       /\ attachments[i] = fTasks[i].attachment
       /\ attachments[i].name \in {fFiles[i].name,
                                   <<"S", "P", "O", "I", "L", "E", "R", "_">> \o fFiles[i].name}

\* C20: processAttachments returns exactly one resolved attachment per
\* descriptor, in descriptor order, or fails; a send carries all of them,
\* and when a descriptor of the batch has failed no send is issued.
C20_AllOrNothing ==
  /\ fPc \in {"resolved", "sent"} => InOrder(fBatch)
  /\ fPc = "failed" => fBatch = <<>> /\ fFirst # 0 /\ fTasks[fFirst].pc = "rejected"
  /\ \A k \in 1..Len(fSent) : InOrder(fSent[k].files)
  /\ (\E i \in 1..Len(fTasks) : fTasks[i].pc = "rejected") => fSent = <<>>

C20_Witness ==
  /\ fPc = "sent"
  /\ Len(fFiles) = 2
  /\ Len(fSent) = 1
  /\ Len(fSent[1].files) = 2
  /\ fSent[1].files[1].name = <<"a", ".", "t", "x", "t">>
  /\ fSent[1].files[2].name = <<"b", "i", "g">>

\* C25: a descriptor whose description is longer than 1024 characters fails
\* validation in the pipeline before any of its sources is resolved.
C25_LongAltTextFails ==
  \A i \in 1..Len(fTasks) :
    DataLength(fFiles[i].description) > 1024 =>
      /\ fTasks[i].error # NoError
      /\ fTasks[i].buffer = EmptyBuffer
      /\ ~fTasks[i].fetchIssued
      /\ ~fTasks[i].statIssued

\* C26: for a local-path descriptor fs.stat is issued before fs.readFile,
\* and when the path is not a regular file or the stat size is over
\* 8,388,608 bytes the descriptor fails and its contents are never read.
C26_StatBeforeRead ==
  \A i \in 1..Len(fTasks) :
    /\ fTasks[i].readIssued =>
         /\ fTasks[i].statIssued
         /\ fTasks[i].stats.isFile
         /\ fTasks[i].stats.size <= MAX_FILE_SIZE
    /\ (/\ fTasks[i].stats.size # Undefined
        /\ ~fTasks[i].stats.isFile \/ fTasks[i].stats.size > MAX_FILE_SIZE) =>
         /\ fTasks[i].pc = "rejected"
         /\ ~fTasks[i].readIssued
         /\ fTasks[i].buffer = EmptyBuffer

C26_Witness ==
  /\ \E i \in 1..Len(fTasks) :
       /\ fTasks[i].stats = [isFile |-> TRUE, size |-> MAX_FILE_SIZE + 1]
       /\ fTasks[i].pc = "rejected"
       /\ fTasks[i].error.text = "File too large"
  /\ \E i \in 1..Len(fTasks) :
       /\ fTasks[i].stats.size # Undefined
       /\ ~fTasks[i].stats.isFile
       /\ fTasks[i].error.text = "Path does not point to a file"

\* C27: a remote-URL descriptor whose scheme is neither http nor https is
\* rejected and no network request is ever issued for it.
C27_SchemeBeforeFetch ==
  \A i \in 1..Len(fTasks) :
    (/\ SourcesSet(fFiles[i]) = {"url"}
     /\ Len(fFiles[i].url) = 2
     /\ fFiles[i].url[1] \notin {"http:", "https:"}) =>
      /\ ~fTasks[i].fetchIssued
      /\ ~fTasks[i].bodyRead
      /\ fTasks[i].timer = "none"
      /\ fTasks[i].pc \in {"await", "rejected"}
      /\ fTasks[i].error.text = "Only HTTP and HTTPS URLs are supported"

C27_Witness ==
  \E i \in 1..Len(fTasks) :
    /\ fFiles[i].url = <<"ftp:", "//host/a.png">>
    /\ fTasks[i].pc = "rejected"
    /\ ~fTasks[i].fetchIssued
    /\ fPc = "failed"

\* C28: every attachment that processAttachments returns, and every
\* attachment of a send, holds at most 8,388,608 bytes, whatever the source
\* and whatever the server declared or fs.stat returned.
C28_SizeBound ==
  /\ \A i \in 1..Len(fTasks) :
       fTasks[i].pc = "resolved" =>
         /\ BufferLength(fTasks[i].buffer) <= MAX_FILE_SIZE
         /\ BufferLength(fTasks[i].attachment.buffer) <= MAX_FILE_SIZE
  /\ \A k \in 1..Len(fBatch) : BufferLength(fBatch[k].buffer) <= MAX_FILE_SIZE
  /\ \A k \in 1..Len(fSent) :
       \A j \in 1..Len(fSent[k].files) :
         BufferLength(fSent[k].files[j].buffer) <= MAX_FILE_SIZE

\* a file that grew after fs.stat and a body longer than the server declared
C28_Witness ==
  /\ \E i \in 1..Len(fTasks) :
       /\ fTasks[i].stats = [isFile |-> TRUE, size |-> 5]
       /\ fTasks[i].readIssued
       /\ BufferLength(fTasks[i].buffer) = MAX_FILE_SIZE + 1
       /\ fTasks[i].pc = "rejected"
  /\ \E i \in 1..Len(fTasks) :
       /\ fTasks[i].bodyRead
       /\ BufferLength(fTasks[i].buffer) = MAX_FILE_SIZE + 1
       /\ fTasks[i].pc = "rejected"
       /\ fTasks[i].error.text = "File is too large"

\* C30 as stated: when the batch has failed, the surfaced error is that of
\* the failing descriptor with the lowest index.
C30_LowestIndexSurfaces ==
  fPc = "failed" =>
    \A i \in 1..Len(fTasks) : fTasks[i].pc = "rejected" => fFirst <= i

\* C30 amended: the surfaced error is that of the descriptor that failed
\* first in time: it is the lowest failing index at the moment of the first
\* failure, and a descriptor of any index that fails later never replaces it.
C30_FirstRejectionSurfaces ==
  [][/\ fFirst # 0 => fFirst' = fFirst
     /\ (fFirst = 0 /\ fFirst' # 0) =>
          \A i \in 1..Len(fTasks') : fTasks'[i].pc = "rejected" => fFirst' <= i
     /\ fFirst' = 0 => \A i \in 1..Len(fTasks') : fTasks'[i].pc # "rejected"
     /\ fPc' = "failed" => fFirst' # 0 /\ fTasks'[fFirst'].pc = "rejected"]_vars

C30_Witness ==
  /\ fPc = "failed"
  /\ Len(fTasks) = 2
  /\ fFirst = 2
  /\ fTasks[1].pc = "rejected"
  /\ fTasks[1].error.text = "HTTP status"

\* C31 as stated: when the batch has failed, every descriptor task of the
\* batch has settled, and no buffer is returned.
C31_WaitsForAll ==
  fPc = "failed" =>
    /\ \A i \in 1..Len(fTasks) : fTasks[i].pc \in {"resolved", "rejected"}
    /\ fBatch = <<>>

\* C31 amended: the error is surfaced as soon as one descriptor task has
\* rejected, whether or not the other tasks have settled; nothing is returned
\* or sent then, so the buffers of the resolved descriptors are discarded.
C31_FailsAtFirstRejection ==
  /\ (fPc = "processing" /\ fFirst # 0) => ENABLED BatchSettles
  /\ fPc = "failed" =>
       /\ fBatch = <<>>
       /\ fSent = <<>>
       /\ ~ENABLED Send

\* the batch has failed while a descriptor task is still waiting for I/O
C31_Witness ==
  /\ fPc = "failed"
  /\ Len(fTasks) = 2
  /\ fFirst = 1
  /\ fTasks[2].pc \in {"fetch", "body", "stat", "read"}

\* C35: a remote-URL resolution that has not settled is still guarded by
\* its FETCH_TIMEOUT timer, while it waits for the response headers and
\* while it waits for the body, so that it settles once the timer fires; and
\* once fetchFromUrl has returned or thrown, the timer is not pending.
C35_TimeoutCoversResolution ==
  \A i \in 1..Len(fTasks) :
    /\ fTasks[i].pc \in {"fetch", "body"} => fTasks[i].timer = "armed"
    /\ fTasks[i].pc \in {"resolved", "rejected"} => fTasks[i].timer # "armed"

(***************************************************************************)
(* SendSpec: DiscordClient.sendMessage.  executeWithRetry runs the         *)
(* operation: the ready check and channels.fetch, processAttachments, then *)
(* the send; the operation rejects with the Error of the pipeline or with  *)
(* the fault of the send.                                                  *)
(***************************************************************************)
\* the Error thrown by processAttachment, as the classifier sees it
OperationError(error) ==
  Fault("Error", Undefined, Undefined, Undefined,
        <<error.outer>> \o error.name \o <<error.via, error.text>>)

SendInit ==
  /\ policy \in { p \in RetryConfig :
                    /\ p.maxAttempts = 2 /\ ~p.jitter /\ p.baseDelay = 1000
                    /\ p.maxDelay = 30000 /\ p.retryableErrors = DefaultRetryableErrors }
  /\ RetryStart
  /\ ClassifyIdle
  /\ ToolIdle
  /\ fFiles \in UNION { [1..n -> Descriptors] : n \in 0..(MaxFiles - 1) }
  /\ fTasks = <<>>
  /\ fPc = "idle"
  /\ fFirst = 0
  /\ fBatch = <<>>
  /\ fSent = <<>>
  /\ fRuns = 0

\* executeWithRetry invokes operation(): the client is ready and
\* channels.fetch resolves with a text channel
OperationStarts ==
  /\ pc = "attempting"
  /\ fRuns < calls
  /\ fPc # "called"
  /\ fPc' = "called"
  /\ fTasks' = <<>>
  /\ fFirst' = 0
  /\ fBatch' = <<>>
  /\ UNCHANGED <<fFiles, fSent, fRuns>>
  /\ UNCHANGED <<retryVars, classifyVars, toolVars, peer>>

SendNext ==
  \/ Call
  \/ OperationStarts
  \/ FileNext
  \/ fRuns = calls /\ fPc = "sent" /\ \E v \in Values : OperationResolves(v)
  \/ fRuns = calls /\ fPc = "sent" /\ \E error \in GenericFaults : OperationRejects(error, 0)
  \/ fRuns = calls /\ fPc = "failed" /\ OperationRejects(OperationError(fTasks[fFirst].error), 0)
  \/ TimerFires
  \/ NextAttempt

SendSpec == SendInit /\ [][SendNext]_vars

\* C21: a fetch still in flight when the timeout timer fires is aborted, and
\* when the failure of the operation is that abort, the orchestrator has
\* classified it as a retryable NetworkError.
C21_TimeoutIsNetworkError ==
  \A i \in 1..Len(fTasks) :
    fTasks[i].timer = "fired" =>
      /\ fTasks[i].pc = "rejected"
      /\ ~fTasks[i].bodyRead
      /\ (fRuns = calls /\ fPc = "failed" /\ fFirst = i /\ pc \in {"failed", "sleeping"}) =>
           /\ lastError.type = NETWORK_ERROR
           /\ lastError.isRetryable

\* C22: in one invocation of sendMessage the attachment pipeline runs at
\* most once, and every send attempt carries the same attachments.
C22_PipelineRunsOnce ==
  /\ fRuns <= 1
  /\ \A k \in 1..Len(fSent) : fSent[k].files = fSent[1].files

\* C37: when the attachment pipeline of sendMessage fails because a
\* descriptor does not pass validation, the failure is classified not
\* retryable and the invocation has failed after one attempt, whatever the
\* characters of the descriptor's name are.
C37_TextIndependent ==
  \A i \in 1..Len(fTasks) :
    (/\ fRuns = calls
     /\ fPc = "failed"
     /\ fFirst = i
     /\ pc \in {"failed", "sleeping"}
     /\ validateFileAttachment(fFiles[i]) # "") =>
      /\ ~lastError.isRetryable
      /\ pc = "failed"
      /\ calls = 1

(***************************************************************************)
(* PathSpec: the remote platform calls of one tool invocation.  execute    *)
(* makes its calls in order; a call through a facade method of             *)
(* DiscordClient is made by the operation that executeWithRetry runs, a    *)
(* call on the discord.js client is made by execute itself.  tRemote       *)
(* records every remote call with the state of executeWithRetry at the     *)
(* moment it is issued.  execute validates its parameters first, and the   *)
(* connection events of the client may flip its readiness at any moment.   *)
(***************************************************************************)
\* the remote calls of execute: the facade method that makes them, or
\* "direct", and whether execute catches and drops their rejection
plan(tool) ==
  LET RemoteStep(call, via, swallowed) ==
        [call |-> call, via |-> via, swallowed |-> swallowed]
      sendMessage == RemoteStep(<<"channels.fetch", "channel.send">>, "sendMessage", FALSE)
  IN CASE tool = "send_message" -> << sendMessage >>
       [] tool = "get_user_info" ->
            << RemoteStep(<<"guilds.fetch">>, "getGuild", FALSE),
               RemoteStep(<<"users.fetch">>, "direct", FALSE),
               RemoteStep(<<"members.fetch">>, "direct", TRUE) >>
       [] tool = "send_dm" ->
            << RemoteStep(<<"users.fetch">>, "direct", FALSE),
               RemoteStep(<<"createDM">>, "direct", FALSE),
               sendMessage >>

\* the step execute is at, the remote calls issued for it in the current
\* attempt, and the last remote call
current == plan(tCall.tool)[tStep]

issued ==
  Cardinality({ k \in 1..Len(tRemote) :
                  tRemote[k].step = tStep /\ tRemote[k].attempt = calls })

lastRemote ==
  IF issued = 0
    THEN [call |-> "", step |-> tStep, attempt |-> calls, inRetry |-> FALSE,
          state |-> "none", fault |-> NoFault]
    ELSE tRemote[Len(tRemote)]

PathInit ==
  /\ policy \in { p \in RetryConfig :
                    /\ p.maxAttempts = 3 /\ ~p.jitter /\ p.baseDelay = 1000
                    /\ p.maxDelay = 30000 /\ p.retryableErrors = DefaultRetryableErrors }
  /\ RetryStart
  /\ ClassifyIdle
  /\ FileIdle
  /\ tCall \in { [tool |-> t, shape |-> sh[1], fault |-> sh[2]] :
                   t \in {"send_message", "get_user_info", "send_dm"},
                   sh \in { <<"none", NoFault>>,
                            <<"raw", Fault("Error", Undefined, Undefined, Undefined,
                                           <<"Invalid parameters:", "user_id:",
                                             "User ID is required">>)>> } }
  /\ tPc = "validating"
  /\ tOutcome = NoOutcome
  /\ tResponse = Surfaced("none", FALSE, <<>>, NoDetails)
  /\ tStep = 1
  /\ tRemote = <<>>
  /\ ready = TRUE

\* validation passes whatever the parameters are
ValidateSkipped ==
  /\ tPc = "validating"
  /\ tPc' = "executing"
  /\ UNCHANGED <<tCall, tOutcome, tResponse, tStep, tRemote, ready>>
  /\ UNCHANGED <<retryVars, classifyVars, fileVars, peer>>

\* const validatedParams = this.validateParams(params, schema): the first
\* statement of execute; its Error goes to the catch block of
\* executeWithErrorHandling
Validate ==
  /\ tPc = "validating"
  /\ IF tCall.shape = "raw"
       THEN /\ tOutcome' = executeWithErrorHandling(tCall)
            /\ tPc' = "executed"
       ELSE /\ tPc' = "executing"
            /\ UNCHANGED tOutcome
  /\ UNCHANGED <<tCall, tResponse, tStep, tRemote, ready>>
  /\ UNCHANGED <<retryVars, classifyVars, fileVars, peer>>

\* the 'disconnect' event, or the 'ready' / 'resume' event
ConnectionChanges ==
  /\ tPc = "executing"
  /\ ready' = ~ready
  /\ UNCHANGED <<tCall, tPc, tOutcome, tResponse, tStep, tRemote>>
  /\ UNCHANGED <<retryVars, classifyVars, fileVars, peer>>

\* the next remote call of the step is issued: by the operation of the
\* facade method once executeWithRetry has invoked it and isReady() held,
\* or by execute
RemoteCall ==
  /\ tPc = "executing"
  /\ issued < Len(current.call)
  /\ lastRemote.state \in {"none", "ok"}
  /\ IF current.via = "direct" THEN pc = "idle" ELSE pc = "attempting"
  /\ (current.via # "direct" /\ issued = 0) => ready
  /\ tRemote' = Append(tRemote,
                       [call |-> current.call[issued + 1], step |-> tStep,
                        attempt |-> calls, inRetry |-> (pc = "attempting"),
                        state |-> "pending", fault |-> NoFault])
  /\ UNCHANGED <<tCall, tPc, tOutcome, tResponse, tStep, ready>>
  /\ UNCHANGED <<retryVars, classifyVars, fileVars, peer>>

\* the platform answers the pending remote call, or the call rejects
RemoteSettles(fault) ==
  /\ lastRemote.state = "pending"
  /\ tRemote' = [tRemote EXCEPT ![Len(tRemote)] =
                   [@ EXCEPT !.state = IF fault = NoFault THEN "ok" ELSE "failed",
                             !.fault = fault]]
  /\ UNCHANGED <<tCall, tPc, tOutcome, tResponse, tStep, ready>>
  /\ UNCHANGED <<retryVars, classifyVars, fileVars, peer>>

\* execute goes on after the await of the step: to the next step, to its
\* return, or to the catch block of executeWithErrorHandling
ToolContinues ==
  /\ tPc = "executing"
  /\ IF current.via = "direct"
       THEN issued = Len(current.call) /\ lastRemote.state \in {"ok", "failed"}
       ELSE pc \in {"success", "failed"}
  /\ LET notFound == Fault("Error", Undefined, Undefined, Undefined, <<"Guild", "not", "found">>)
         caught ==
           IF current.via = "direct"
             THEN IF lastRemote.state = "failed" /\ ~current.swallowed
                    THEN [tCall EXCEPT !.shape = "raw", !.fault = lastRemote.fault]
                    ELSE tCall
             ELSE IF pc = "failed"
                    THEN [tCall EXCEPT !.shape = "classified",
                                       !.fault = outcomes[Len(outcomes)]]
                    ELSE IF result = "null"
                           THEN [tCall EXCEPT !.shape = "raw", !.fault = notFound]
                           ELSE tCall
     IN IF caught.shape # "none"
          THEN /\ tOutcome' = executeWithErrorHandling(caught)
               /\ tPc' = "executed"
               /\ UNCHANGED tStep
          ELSE IF tStep = Len(plan(tCall.tool))
                 THEN /\ tOutcome' = NoOutcome
                      /\ tPc' = "executed"
                      /\ UNCHANGED tStep
                 ELSE /\ tStep' = tStep + 1
                      /\ UNCHANGED <<tOutcome, tPc>>
  \* the locals of the executeWithRetry invocation that returned are gone
  /\ pc' = "idle"
  /\ attempt' = 0
  /\ lastError' = Null
  /\ thrown' = Null
  /\ result' = "undefined"
  /\ calls' = 0
  /\ outcomes' = <<>>
  /\ slept' = <<>>
  /\ UNCHANGED <<policy, inFlight, timer, log>>
  /\ UNCHANGED <<tCall, tResponse, tRemote, ready>>
  /\ UNCHANGED <<classifyVars, fileVars, peer>>

PathNext ==
  \/ Validate
  \/ ConnectionChanges
  \/ tPc = "executing" /\ current.via # "direct" /\ Call
  \/ RemoteCall
  \/ \E fault \in {NoFault} \cup { f \in GenericFaults \cup ApiFaults \cup HttpFaults :
                                    \/ f.message = <<"read", "ECONNRESET">>
                                    \/ f.status \in {403, 404} } :
       RemoteSettles(fault)
  \* the operation of the facade method goes on after its await
  \/ /\ lastRemote.state = "none"
     /\ ~ready
     /\ OperationRejects(Fault("Error", Undefined, Undefined, Undefined,
                               <<"Client", "is", "not", "ready">>), 0)
  \/ /\ lastRemote.state = "ok"
     /\ issued = Len(current.call)
     /\ OperationResolves("v1")
  \/ /\ lastRemote.state = "failed"
     /\ current.via = "getGuild"
     /\ handleError(lastRemote.fault).code = 404
     /\ OperationResolves("null")
  \/ /\ lastRemote.state = "failed"
     /\ ~(current.via = "getGuild" /\ handleError(lastRemote.fault).code = 404)
     /\ OperationRejects(lastRemote.fault, 0)
  \/ TimerFires
  \/ NextAttempt
  \/ ToolContinues
  \/ HandlerReturns

PathSpec == PathInit /\ [][PathNext]_vars

\* C36: an attempt of a facade operation that starts while the client is
\* not ready issues no remote call; its failure is not retryable, so the
\* invocation has failed at that attempt, without a sleep after it and
\* whatever number of attempts remains.
C36_NotReadyStops ==
  /\ (tPc = "executing" /\ pc = "attempting" /\ issued = 0 /\ ~ready) => ~ENABLED RemoteCall
  /\ \A n \in 1..Len(outcomes) :
       outcomes[n].message = <<"Client", "is", "not", "ready">> =>
         /\ n = Len(outcomes)
         /\ calls = n
         /\ pc = "failed"
         /\ ~thrown.isRetryable
         /\ Len(slept) = n - 1
         /\ \A k \in 1..Len(tRemote) :
              ~(tRemote[k].step = tStep /\ tRemote[k].attempt = n)

\* the client disconnects during the sleep after a first, retryable failure
C36_Witness ==
  /\ ~ready
  /\ pc = "failed"
  /\ policy.maxAttempts = 3
  /\ calls = 2
  /\ Len(slept) = 1
  /\ Len(outcomes) = 2
  /\ outcomes[1].message = <<"read", "ECONNRESET">>
  /\ outcomes[2].message = <<"Client", "is", "not", "ready">>

\* C39: when the remote fetch of getGuild has failed with a fault of status
\* 404, the operation has resolved to null, with no attempt and no sleep
\* after it; any other fault is the outcome of the attempt, unchanged, and is
\* classified by the orchestrator.
C39_NullOn404 ==
  (/\ tPc = "executing"
   /\ current.via = "getGuild"
   /\ lastRemote.state = "failed"
   /\ pc # "attempting") =>
    IF lastRemote.fault.status = 404
      THEN /\ pc = "success"
           /\ result = "null"
           /\ Len(slept) = calls - 1
      ELSE /\ pc \in {"sleeping", "failed"}
           /\ outcomes[Len(outcomes)] = lastRemote.fault
           /\ lastError = handleError(lastRemote.fault)

\* guilds.fetch fails with status 404 and a platform code on the first attempt
C39_Witness ==
  /\ tPc = "executing"
  /\ current.via = "getGuild"
  /\ lastRemote.state = "failed"
  /\ lastRemote.fault.cls = "DiscordAPIError"
  /\ lastRemote.fault.status = 404
  /\ lastRemote.fault.code = 50013
  /\ pc = "success"
  /\ result = "null"
  /\ calls = 1
  /\ slept = <<>>

\* C40: a tool invocation whose parameters fail validation issues no remote
\* call and no attempt of executeWithRetry, writes no retry report, and
\* fails with an MCPError whose message is the list of offending parameters.
C40_InvalidNoEffect ==
  tCall.shape = "raw" =>
    /\ tRemote = <<>>
    /\ calls = 0
    /\ pc = "idle"
    /\ log = <<>>
    /\ ready
    /\ tPc \in {"executed", "done"} =>
         /\ tOutcome.threw
         /\ tOutcome.details.present
         /\ tOutcome.message = tCall.fault.message
         /\ tOutcome.details.discordError.message = tCall.fault.message

C40_Witness ==
  /\ tCall.shape = "raw"
  /\ tCall.tool = "send_dm"
  /\ tPc = "done"
  /\ tResponse.isError
  /\ tRemote = <<>>

\* C23: every remote platform call made while serving a tool invocation is
\* issued inside executeWithRetry, by an attempt that the retry telemetry
\* reports.
C23_NoBypass ==
  \A k \in 1..Len(tRemote) : tRemote[k].inRetry

(***************************************************************************)
(* PairSpec: two invocations of executeWithRetry on the RetryManager of    *)
(* DiscordClient, interleaved at their awaits.  The invocations share      *)
(* this.config and this.logger; attempt and lastError are locals.          *)
(***************************************************************************)
\* the attempt counter shared by the invocations
peerAttemptShared == attempt

\* let attempt = 0: a local of the second invocation
peerAttempt == peer.attempt

\* one step of the second invocation: the call, the operation settling with
\* `outcome`, the timer, or the continuation after the sleep
Peer(outcome, random) ==
  /\ \/ /\ peer.pc = "idle"
        /\ peer' = IF loopCondition(0)
                     THEN [peer EXCEPT !.pc = "attempting", !.calls = 1]
                     ELSE [peer EXCEPT !.pc = "failed"]
        /\ UNCHANGED log
     \/ /\ peer.pc = "attempting"
        /\ outcome.cls = "resolved"
        /\ peer' = [peer EXCEPT !.pc = "success", !.result = outcome.message[1],
                                !.outcomes = Append(@, outcome)]
        /\ log' = logSuccess(log, peerAttempt)
     \/ /\ peer.pc = "attempting"
        /\ IsFailure(outcome)
        /\ LET discordError == handleError(outcome)
               warned == logFailure(log, peerAttempt, discordError)
               delay == calculateDelay(discordError, peerAttempt, random)
               caught == [peer EXCEPT !.lastError = discordError,
                                      !.outcomes = Append(@, outcome)]
           IN IF giveUp(discordError)
                THEN /\ log' = logNonRetryable(warned, discordError)
                     /\ peer' = [caught EXCEPT !.thrown = discordError, !.pc = "failed"]
                ELSE IF isLastAttempt(peerAttempt)
                  THEN /\ log' = logExhausted(warned, discordError)
                       /\ peer' = [caught EXCEPT !.thrown = discordError, !.pc = "failed"]
                  ELSE /\ log' = logRetry(warned, peerAttempt, discordError, delay)
                       /\ peer' = [caught EXCEPT !.timer = sleep(delay),
                                                 !.slept = Append(@, delay),
                                                 !.pc = "sleeping"]
     \/ /\ peer.pc = "sleeping"
        /\ peer.timer.state = "pending"
        /\ peer' = [peer EXCEPT !.timer.state = "fired"]
        /\ UNCHANGED log
     \/ /\ peer.pc = "sleeping"
        /\ peer.timer.state = "fired"
        /\ peer' = IF loopCondition(peerAttempt + 1)
                     THEN [peer EXCEPT !.attempt = peerAttempt + 1, !.timer = NoTimer,
                                       !.pc = "attempting", !.calls = @ + 1]
                     ELSE [peer EXCEPT !.attempt = peerAttempt + 1, !.timer = NoTimer,
                                       !.pc = "failed", !.thrown = peer.lastError]
        /\ UNCHANGED log
  /\ UNCHANGED <<policy, pc, attempt, lastError, thrown, result, calls, inFlight,
                 timer, outcomes, slept>>
  /\ UNCHANGED <<classifyVars, toolVars, fileVars>>

PairInit ==
  /\ policy \in { p \in RetryConfig :
                    /\ p.maxAttempts \in {2, 3} /\ ~p.jitter /\ p.baseDelay = 1000
                    /\ p.maxDelay = 30000 /\ p.retryableErrors = DefaultRetryableErrors }
  /\ RetryStart
  /\ ClassifyIdle
  /\ ToolIdle
  /\ FileIdle

PairNext ==
  LET PairFaults == { f \in GenericFaults \cup ApiFaults :
                        \/ f.cls = "Error"
                        \/ f.code = 429 /\ f.retry_after = 5 }
  IN \/ Call
     \/ OperationResolves("v1")
     \/ \E error \in PairFaults : OperationRejects(error, 0)
     \/ TimerFires
     \/ NextAttempt
     \/ \E outcome \in PairFaults \cup {Resolved("v2")} : Peer(outcome, 0)

PairSpec == PairInit /\ [][PairNext]_vars

\* C24: in every interleaving of two invocations of executeWithRetry, the
\* attempts, classifications and delays of each invocation are those that
\* its own outcomes give when it runs alone, and the shared policy is never
\* modified: after every step, each invocation's calls, sleeps, classified
\* error and result are the function of its own outcomes.
C24_Independent ==
  [][LET AsIfAlone(inv) ==
        LET n == Len(inv.outcomes)
            retried(i) == /\ IsFailure(inv.outcomes[i])
                          /\ ~giveUp(handleError(inv.outcomes[i]))
                          /\ ~isLastAttempt(i - 1)
        IN /\ inv.calls <= policy.maxAttempts
           /\ \A i \in 1..(n - 1) : retried(i)
           /\ \A i \in 1..Len(inv.slept) :
                /\ retried(i)
                /\ inv.slept[i] = calculateDelay(handleError(inv.outcomes[i]), i - 1, 0)
           /\ inv.pc = "attempting" =>
                inv.calls = n + 1 /\ inv.attempt = n /\ Len(inv.slept) = n
           /\ inv.pc = "sleeping" =>
                /\ inv.calls = n /\ inv.attempt = n - 1 /\ Len(inv.slept) = n
                /\ inv.lastError = handleError(inv.outcomes[n])
           /\ inv.pc = "success" =>
                /\ inv.calls = n /\ Len(inv.slept) = n - 1
                /\ inv.outcomes[n] = Resolved(inv.result)
           /\ inv.pc = "failed" =>
                /\ inv.calls = n /\ Len(inv.slept) = n - 1
                /\ ~retried(n)
                /\ inv.thrown = handleError(inv.outcomes[n])
      first == [pc |-> pc, attempt |-> attempt, lastError |-> lastError,
                thrown |-> thrown, result |-> result, calls |-> calls,
                timer |-> timer, outcomes |-> outcomes, slept |-> slept]
  IN /\ AsIfAlone(first)' /\ AsIfAlone(peer)'
     /\ policy' = policy]_vars

C24_Witness ==
  /\ pc = "sleeping"
  /\ peer.pc = "failed"
  /\ peer.calls = 2
  /\ calls = 1
  /\ Len(peer.slept) = 1
  /\ peer.slept[1] # slept[1]

(***************************************************************************)
(* LiveSpec: executeWithRetry with an operation that always settles.  The  *)
(* event loop runs every enabled continuation and fires every timer, so    *)
(* the next step of the invocation is eventually taken.                    *)
(***************************************************************************)
LiveInit ==
  /\ policy \in { p \in RetryConfig :
                    /\ ~p.jitter /\ p.baseDelay = 1000 /\ p.maxDelay = 30000
                    /\ p.retryableErrors = DefaultRetryableErrors }
  /\ RetryStart
  /\ ClassifyIdle
  /\ ToolIdle
  /\ FileIdle

LiveSpec == LiveInit /\ [][Next]_vars /\ WF_vars(Next)

\* C29: when every invocation of the operation settles, executeWithRetry
\* reaches success or failure, after at most maxAttempts invocations of the
\* operation and at most maxAttempts - 1 sleeps (none when maxAttempts is 0).
C29_Terminates ==
  /\ [](/\ calls <= policy.maxAttempts
        /\ Len(slept) <= Max(policy.maxAttempts - 1, 0))
  /\ <>(pc \in {"success", "failed"})

C29_Witness ==
  /\ pc = "success"
  /\ policy.maxAttempts = 3
  /\ calls = 3
  /\ Len(slept) = 2
  /\ timer = NoTimer

====
